---- MODULE Spec2Model ----
(***************************************************************************)
(* Entitlement reconciliation backend: the Google Play RTDN / verify       *)
(* server (src/server.js, first revision, lines 1-345) and the PayPal /    *)
(* Stripe webhook server (src/unnamed/part_006), both writing the same     *)
(* Firestore collections users/{uid}, users/{uid}/subscriptions/current    *)
(* and purchase_audits.                                                    *)
(*                                                                         *)
(* Every `await` of a handler is one atomic step of the model: between two *)
(* awaits Node runs the handler without interruption, and at an await any  *)
(* other request may run.  A store or provider call may throw; the         *)
(* handler's catch block is part of the step that throws.                  *)
(***************************************************************************)
EXTENDS Integers, Sequences, FiniteSets, TLC

\* ---------------------------------------------------------------- bounds
\* Handler runs (requests) started in one behaviour.
MaxRuns == 2

\* ------------------------------------------------------------- constants
\* An absent (undefined) numeric JSON field.
NoInt == -1
\* An absent (undefined) field of a document or payload, and JSON null.
ABSENT == "absent"
NULL == "null"

Users == {"u1", "u2"}
Procs == {1, 2}
Tokens == {"tok1", "tok2"}
ProductIds == {"genevolut_champ", "genevolut_grandmaster"}
\* subscriptionNotification.notificationType: 3 = CANCELED, 4 = PURCHASED.
NotifTypes == {3, 4}
\* The types a notification may carry: the two above and one that Google Play
\* does not define.
AllTypes == NotifTypes \cup {99}
NoKey == <<ABSENT, NoInt>>
Keys == Tokens \X AllTypes

VARIABLES
    users,      \* users/{uid}
    cur,        \* users/{uid}/subscriptions/current
    audits,     \* purchase_audits/{auditId}, documents with a chosen id
    vaudits,    \* purchase_audits documents with an auto id (add)
    now,        \* Date.now()
    h,          \* per request slot: the handler run's position and locals
    runs,       \* history: handler runs started
    applied,    \* history: updateFirestoreEntitlement calls per idempotency key
    lastFetch,  \* history: status resolved by the latest RTDN re-verification, per token
    cancels,    \* history: subscriptions for which a provider cancel was requested
    lastDone    \* history: the run that completed last, and the store it left

vars == <<users, cur, audits, vaudits, now, h, runs, applied, lastFetch, cancels, lastDone>>

\* ------------------------------------------------------------- documents
\* The fields the handlers write, without the timestamps (updatedAt, timestamp,
\* verifiedAt, processedAt); `event` is a history field: the idempotency key of
\* the RTDN event the document was last written for.
NoUserDoc ==
    [subscription_tier |-> ABSENT, subscriptionStatus |-> ABSENT, provider |-> ABSENT,
     productId |-> ABSENT, purchaseToken |-> ABSENT, subscriptionId |-> ABSENT,
     planId |-> ABSENT, payerEmail |-> ABSENT, stripeSubscriptionId |-> ABSENT,
     platform |-> ABSENT, credits |-> NoInt, event |-> NoKey]

NoCurDoc ==
    [tier |-> ABSENT, status |-> ABSENT, productId |-> ABSENT, purchaseToken |-> ABSENT,
     platform |-> ABSENT, provider |-> ABSENT, subscriptionId |-> ABSENT,
     planId |-> ABSENT, payerEmail |-> ABSENT, event |-> NoKey]

NoAuditDoc ==
    [userId |-> ABSENT, productId |-> ABSENT, purchaseToken |-> ABSENT, status |-> ABSENT,
     source |-> ABSENT, notificationType |-> NoInt, expiry |-> NoInt,
     paymentState |-> NoInt, cancelReason |-> NoInt]

\* DocumentReference.set(data, {merge: true}): the fields of data replace the
\* document's, the others stay.
MergeSet(doc, data) ==
    [f \in DOMAIN doc |-> IF f \in DOMAIN data THEN data[f] ELSE doc[f]]

\* DocumentReference.set(data): the document becomes data; `blank` is the
\* document with no field.
PlainSet(blank, data) ==
    [f \in DOMAIN blank |-> IF f \in DOMAIN data THEN data[f] ELSE blank[f]]

\* --------------------------------------------------------- pure functions
\* `${purchaseToken}_${notificationType}`: the token, an underscore, the decimal
\* digits of the type; the pair it is built from identifies it.
AuditId(purchaseToken, notificationType) == <<purchaseToken, notificationType>>

\* parseInt(data.expiryTimeMillis || "0", 10)
ParseExpiry(expiryTimeMillis) == IF expiryTimeMillis = NoInt THEN 0 ELSE expiryTimeMillis

\* let status = "cancelled"; if (expiry > Date.now()) status =
\*   paymentState === 1 && cancelReason == null ? "active" : "pending";
ResolveStatus(expiry, t, paymentState, cancelReason) ==
    IF expiry > t
    THEN (IF paymentState = 1 /\ cancelReason = NoInt THEN "active" ELSE "pending")
    ELSE "cancelled"

\* productId === "genevolut_grandmaster" ? "Grandmaster" : productId === "genevolut_champ" ? "Champ" : "Free"
TierOfProduct(productId) ==
    IF productId = "genevolut_grandmaster" THEN "Grandmaster"
    ELSE IF productId = "genevolut_champ" THEN "Champ"
    ELSE "Free"

\* const normalizedTier = status === "active" ? tier : "Free";
NormalizedTier(status, productId) ==
    IF status = "active" THEN TierOfProduct(productId) ELSE "Free"

\* ----------------------------------------------------------- handler slots
\* A request body, with the fields the handlers read: kind is the shape of the
\* body (Google Play) or its event type (PayPal event_type, Stripe event.type).
NoEvent ==
    [kind |-> ABSENT, subscriptionId |-> ABSENT, purchaseToken |-> ABSENT,
     notificationType |-> NoInt, userId |-> ABSENT, planId |-> ABSENT,
     email |-> ABSENT, customer |-> ABSENT, tier |-> ABSENT, status |-> ABSENT,
     eventTimeMillis |-> NoInt]

\* The body with fields `r`, every other field absent.
Body(r) == [f \in DOMAIN NoEvent |-> IF f \in DOMAIN r THEN r[f] ELSE NoEvent[f]]

NoResp == [expiryTimeMillis |-> NoInt, paymentState |-> NoInt, cancelReason |-> NoInt]

\* The verdict of a run that decoded no integrity token.
NoVerdict == [device |-> FALSE, app |-> FALSE, licensed |-> FALSE]

Idle ==
    [pc |-> "idle", handler |-> ABSENT, ev |-> NoEvent, key |-> NoKey, uid |-> ABSENT,
     resp |-> NoResp, expiry |-> NoInt, status |-> ABSENT, tier |-> ABSENT,
     ident |-> ABSENT, http |-> 0, outcome |-> ABSENT, wrote |-> {}, calls |-> {},
     conflict |-> FALSE, verdict |-> NoVerdict, occ |-> NoInt, sent |-> 0]

\* The entries of a run's `calls` that are requests to a provider ("read" is a
\* store read).
ProviderCalls == {"integrity", "fetch", "cancel", "customer", "retrieve"}

\* A slot is free before its first request and after a run has ended.
Free(p) == h[p].pc \in {"idle", "done"}

\* A request takes the lowest free slot (the slots are interchangeable).
CanStart(p) == Free(p) /\ runs < MaxRuns /\ \A q \in Procs : q < p => ~Free(q)

\* res.sendStatus(code) ending the run: the locals go out of scope, what the
\* run did stays on record.
\* The end of a request: what is kept of the run once its handler has returned.
\* sent counts the HTTP responses written on the request's res object.
Finish(run, code, outcome) ==
    [Idle EXCEPT !.pc = "done", !.handler = run.handler, !.key = run.key, !.http = code,
                 !.outcome = outcome, !.wrote = run.wrote, !.calls = run.calls,
                 !.conflict = run.conflict, !.occ = run.ev.eventTimeMillis,
                 !.sent = run.sent]

\* res.sendStatus(code) / res.status(code).json(...) followed by the return.
Respond(run, code, outcome) ==
    [Finish(run, code, outcome) EXCEPT !.sent = run.sent + 1]

\* The status the verify endpoint answers a body with a missing field with.
MissingFieldsStatus == 400

\* The status a notification endpoint answers an incomplete payload with:
\* return res.sendStatus(200).
InvalidPayloadStatus == 200

\* The provider's answers to purchases.subscriptions.get: expiryTimeMillis is
\* absent, equal to Date.now() or later; paymentState 0 = pending, 1 = received;
\* cancelReason is absent or 0 = cancelled by the user.
PlayResponses ==
    [expiryTimeMillis : {NoInt, now, now + 1}, paymentState : {0, 1},
     cancelReason : {NoInt, 0}]

\* One answer per resolved status, for the runs that race.
RaceResponses ==
    {r \in PlayResponses :
        \/ r.expiryTimeMillis = now + 1 /\ r.cancelReason = NoInt
        \/ r.expiryTimeMillis = now /\ r.paymentState = 1 /\ r.cancelReason = 0}

\* Pub/Sub bodies delivered to POST /api/googleplay/rtnd.
RtdnBodies ==
    {Body(r) : r \in [kind : {"badjson", "nodata", "notsub"}]}
    \cup
    {Body(r) : r \in [kind : {"sub"}, subscriptionId : ProductIds, purchaseToken : Tokens,
                      notificationType : NotifTypes]}

\* The bodies of the runs that race: one product.
RaceBodies == {b \in RtdnBodies : b.kind = "sub" => b.subscriptionId = "genevolut_champ"}

\* ------------------------------------------------- Google Play RTDN handler
\* AlreadyProcessed with the lookup broken: the guard never finds the record.
AlreadyProcessedNever(key) == FALSE

\* (await auditRef.get()).exists
AlreadyProcessed(key) == audits[key] # NoAuditDoc

\* collectionGroup("subscriptions").where("purchaseToken", "==", purchaseToken)
FindUserByToken(purchaseToken) == {u \in Users : cur[u].purchaseToken = purchaseToken}

\* limit(1).get(), docs[0]: Firestore orders a query by document path.
FirstUser(S) == CHOOSE u \in S : \A v \in S : u = v \/ (u = "u1" /\ v = "u2")

\* The catch block: console.error, res.sendStatus(200).
RtdnCatch(p) == h' = [h EXCEPT ![p] = Respond(h[p], 200, "error")]

\* The catch block with the answer 500 in place of 200.
RtdnProviderCatch500(p) == h' = [h EXCEPT ![p] = Respond(h[p], 500, "provider_error")]

\* The catch block reached from the provider call (billingAuth.getClient or
\* purchases.subscriptions.get throws): console.error, res.sendStatus(200).
RtdnProviderCatch(p) == h' = [h EXCEPT ![p] = Respond(h[p], 200, "provider_error")]

\* Lines 215-255: parse the Pub/Sub body, decode it, read the audit record.
RtdnReceive(p, body) ==
    /\ CanStart(p)
    /\ runs' = runs + 1
    /\ LET run == [Idle EXCEPT !.handler = "rtdn", !.ev = body]
           key == AuditId(body.purchaseToken, body.notificationType)
           guarded == [run EXCEPT !.key = key, !.calls = {"read"}]
       IN  \/ /\ body.kind = "badjson"
              /\ h' = [h EXCEPT ![p] = Respond(run, 200, "error")]
           \/ /\ body.kind \in {"nodata", "notsub"}
              /\ h' = [h EXCEPT ![p] = Respond(run, InvalidPayloadStatus, "malformed")]
           \/ /\ body.kind = "sub"
              /\ \/ h' = [h EXCEPT ![p] = Respond(guarded, 200, "error")]
                 \/ /\ AlreadyProcessed(key)
                    /\ h' = [h EXCEPT ![p] = Respond(guarded, 200, "duplicate")]
                 \/ /\ ~AlreadyProcessed(key)
                    /\ h' = [h EXCEPT ![p] = [guarded EXCEPT !.pc = "find"]]
    /\ UNCHANGED <<users, cur, audits, vaudits, now, applied, lastFetch, cancels>>

\* RtdnFindUser with the key recorded when no user holds the token.
RtdnFindUserRecording(p) ==
    /\ h[p].pc = "find"
    /\ LET found == FindUserByToken(h[p].ev.purchaseToken)
       IN  \/ /\ RtdnCatch(p)
              /\ UNCHANGED audits
           \/ /\ found = {}
              /\ audits' = [audits EXCEPT ![h[p].key] =
                     [NoAuditDoc EXCEPT !.purchaseToken = h[p].ev.purchaseToken,
                                        !.notificationType = h[p].ev.notificationType,
                                        !.source = "rtdn"]]
              /\ h' = [h EXCEPT ![p] = Respond(h[p], 200, "nouser")]
           \/ /\ found # {}
              /\ h' = [h EXCEPT ![p].uid = FirstUser(found), ![p].pc = "fetch"]
              /\ UNCHANGED audits
    /\ UNCHANGED <<users, cur, vaudits, now, runs, applied, lastFetch, cancels>>

\* Lines 257-269: find the user that owns the purchase token.
RtdnFindUser(p) ==
    /\ h[p].pc = "find"
    /\ LET found == FindUserByToken(h[p].ev.purchaseToken)
       IN  \/ RtdnCatch(p)
           \/ /\ found = {}
              /\ h' = [h EXCEPT ![p] = Respond(h[p], 200, "nouser")]
           \/ /\ found # {}
              /\ h' = [h EXCEPT ![p].uid = FirstUser(found), ![p].pc = "fetch"]
    /\ UNCHANGED <<users, cur, audits, vaudits, now, runs, applied, lastFetch, cancels>>

\* A purchase token is stored under a user for the first time.  Nothing in
\* this revision of the server does it; the later revision's
\* updateFirestoreWithGooglePlay(uid, productId, purchaseToken, status)
\* (server.js:723-753) writes both documents of the user.
BindToken(uid, token, productId) ==
    /\ FindUserByToken(token) = {}
    /\ cur[uid] = NoCurDoc
    /\ users' = [users EXCEPT ![uid] = MergeSet(@,
            [subscription_tier |-> "Free", subscriptionStatus |-> "pending",
             provider |-> "google_play", productId |-> productId, purchaseToken |-> token])]
    /\ cur' = [cur EXCEPT ![uid] = PlainSet(NoCurDoc,
            [tier |-> "Free", status |-> "pending", productId |-> productId,
             purchaseToken |-> token])]
    /\ UNCHANGED <<audits, vaudits, now, h, runs, applied, lastFetch, cancels>>

\* Lines 271-293: re-verify with the provider and resolve the status.
RtdnFetch(p, Responses) ==
    /\ h[p].pc = "fetch"
    /\ \/ /\ RtdnProviderCatch(p)
          /\ UNCHANGED lastFetch
       \/ \E r \in Responses :
            LET expiry == ParseExpiry(r.expiryTimeMillis)
                status == ResolveStatus(expiry, now, r.paymentState, r.cancelReason)
            IN  /\ h' = [h EXCEPT ![p].resp = r, ![p].expiry = expiry,
                                  ![p].status = status, ![p].pc = "write_user",
                                  ![p].calls = @ \cup {"fetch"}]
                /\ lastFetch' = [lastFetch EXCEPT ![h[p].ev.purchaseToken] = status]
    /\ UNCHANGED <<users, cur, audits, vaudits, now, runs, applied, cancels>>

\* updateFirestoreEntitlement, lines 82-103: userRef.set({...}, {merge: true}).
RtdnWriteUser(p) ==
    /\ h[p].pc = "write_user"
    /\ applied' = [applied EXCEPT ![h[p].key] = IF @ < MaxRuns THEN @ + 1 ELSE @]
    /\ \/ /\ RtdnCatch(p)
          /\ UNCHANGED users
       \/ /\ users' = [users EXCEPT ![h[p].uid] = MergeSet(@,
                [subscription_tier |-> NormalizedTier(h[p].status, h[p].ev.subscriptionId),
                 subscriptionStatus |-> h[p].status,
                 provider |-> "google_play",
                 productId |-> h[p].ev.subscriptionId,
                 purchaseToken |-> h[p].ev.purchaseToken,
                 event |-> h[p].key])]
          /\ h' = [h EXCEPT ![p].pc = "write_cur",
                            ![p].wrote = @ \cup {"users"}]
    /\ UNCHANGED <<cur, audits, vaudits, now, runs, lastFetch, cancels>>

\* updateFirestoreEntitlement, lines 105-117: subscriptions/current set({...}, {merge: true}).
RtdnWriteCur(p) ==
    /\ h[p].pc = "write_cur"
    /\ \/ /\ RtdnCatch(p)
          /\ UNCHANGED cur
       \/ /\ cur' = [cur EXCEPT ![h[p].uid] = MergeSet(@,
                [tier |-> NormalizedTier(h[p].status, h[p].ev.subscriptionId),
                 status |-> h[p].status,
                 productId |-> h[p].ev.subscriptionId,
                 purchaseToken |-> h[p].ev.purchaseToken,
                 event |-> h[p].key])]
          /\ h' = [h EXCEPT ![p].pc = "write_audit",
                            ![p].wrote = @ \cup {"cur"}]
    /\ UNCHANGED <<users, audits, vaudits, now, runs, applied, lastFetch, cancels>>

\* Lines 303-320: auditRef.set({...}), then res.sendStatus(200).
\* The audit document carries extra.paymentState and extra.cancelReason as
\* read from the provider answer.  A field the answer leaves out is the
\* JavaScript value undefined, which DocumentReference.set refuses ("Cannot
\* use undefined as a Firestore value") unless ignoreUndefinedProperties was
\* set; the server never sets it (admin.firestore() at server.js:43), so the
\* set throws before anything is sent to the store and the catch block
\* answers 200 (outcome "invalid_data").  Otherwise the set is sent and either
\* fails (outcome "error") or stores the document.
UndefinedInExtra(resp) == resp.paymentState = NoInt \/ resp.cancelReason = NoInt

RtdnWriteAudit(p) ==
    /\ h[p].pc = "write_audit"
    /\ \/ /\ UndefinedInExtra(h[p].resp)
          /\ h' = [h EXCEPT ![p] = Respond(h[p], 200, "invalid_data")]
          /\ UNCHANGED audits
       \/ /\ ~UndefinedInExtra(h[p].resp)
          /\ RtdnCatch(p)
          /\ UNCHANGED audits
       \/ /\ ~UndefinedInExtra(h[p].resp)
          /\ audits' = [audits EXCEPT ![h[p].key] =
                [userId |-> h[p].uid,
                 productId |-> h[p].ev.subscriptionId,
                 purchaseToken |-> h[p].ev.purchaseToken,
                 status |-> h[p].status,
                 source |-> "rtdn",
                 notificationType |-> h[p].ev.notificationType,
                 expiry |-> h[p].expiry,
                 paymentState |-> h[p].resp.paymentState,
                 cancelReason |-> h[p].resp.cancelReason]]
          /\ h' = [h EXCEPT ![p] = Respond([h[p] EXCEPT !.wrote = @ \cup {"audit"}],
                                           200, "processed")]
    /\ UNCHANGED <<users, cur, vaudits, now, runs, applied, lastFetch, cancels>>

\* ----------------------------------------------- Google Play verify handler
\* Bodies of POST /api/googleplay/verify: {packageName, productId, purchaseToken,
\* userId, integrityToken}, complete or with a field missing.
VerifyBodies ==
    {Body(r) : r \in [kind : {"verify", "missing"}, subscriptionId : ProductIds,
                      purchaseToken : Tokens, userId : Users]}

\* tokenPayloadExternal: whether deviceRecognitionVerdict includes
\* MEETS_DEVICE_INTEGRITY, appRecognitionVerdict includes PLAY_RECOGNIZED, and
\* appLicensingVerdict is LICENSED.
Verdicts == [device : BOOLEAN, app : BOOLEAN, licensed : BOOLEAN]

\* Trusted with the licensing verdict left out.
TrustedUnlicensed(v) == v.device /\ v.app

\* Lines 159-162.
Trusted(v) == v.device /\ v.app /\ v.licensed

\* The catch block: res.status(500).json({error}).
VerifyCatch(p) == h' = [h EXCEPT ![p] = Respond(h[p], 500, "error")]

\* writeAuditRecord, lines 123-128: purchase_audits.add({...data, verifiedAt}).
WriteAuditRecord(userId, productId, purchaseToken, status) ==
    vaudits' = Append(vaudits,
        [NoAuditDoc EXCEPT !.userId = userId, !.productId = productId,
                           !.purchaseToken = purchaseToken, !.status = status,
                           !.source = "verify"])

\* Lines 134-163: validate the body, decode the integrity token.
VerifyReceive(p, body) ==
    /\ CanStart(p)
    /\ runs' = runs + 1
    /\ LET run == [Idle EXCEPT !.handler = "verify", !.ev = body]
       IN  \/ /\ body.kind = "missing"
              /\ h' = [h EXCEPT ![p] = Respond(run, MissingFieldsStatus, "malformed")]
           \/ /\ body.kind = "verify"
              /\ \/ h' = [h EXCEPT ![p] = Respond(run, 500, "error")]
                 \/ \E v \in Verdicts :
                      h' = [h EXCEPT ![p] = [run EXCEPT !.calls = {"integrity"},
                                !.verdict = v,
                                !.pc = IF Trusted(v) THEN "v_fetch" ELSE "v_reject"]]
    /\ UNCHANGED <<users, cur, audits, vaudits, now, applied, lastFetch, cancels>>

\* Lines 164-173: the verdict is not trusted.
VerifyReject(p) ==
    /\ h[p].pc = "v_reject"
    /\ \/ /\ VerifyCatch(p)
          /\ UNCHANGED vaudits
       \/ /\ WriteAuditRecord(h[p].ev.userId, h[p].ev.subscriptionId,
                              h[p].ev.purchaseToken, "integrity_failed")
          /\ h' = [h EXCEPT ![p] = Respond([h[p] EXCEPT !.wrote = @ \cup {"audit"}],
                                           403, "integrity_failed")]
    /\ UNCHANGED <<users, cur, audits, now, runs, applied, lastFetch, cancels>>

\* Lines 175-195: billing verify and status resolution.
VerifyFetch(p, Responses) ==
    /\ h[p].pc = "v_fetch"
    /\ \/ VerifyCatch(p)
       \/ \E r \in Responses :
            LET expiry == ParseExpiry(r.expiryTimeMillis)
                status == ResolveStatus(expiry, now, r.paymentState, r.cancelReason)
            IN  h' = [h EXCEPT ![p].resp = r, ![p].expiry = expiry,
                               ![p].status = status, ![p].pc = "v_audit",
                               ![p].calls = @ \cup {"fetch"}]
    /\ UNCHANGED <<users, cur, audits, vaudits, now, runs, applied, lastFetch, cancels>>

\* Lines 197-205: audit record, then res.json({status, expiryTimeMillis}).
VerifyAudit(p) ==
    /\ h[p].pc = "v_audit"
    /\ \/ /\ VerifyCatch(p)
          /\ UNCHANGED vaudits
       \/ /\ WriteAuditRecord(h[p].ev.userId, h[p].ev.subscriptionId,
                              h[p].ev.purchaseToken, h[p].status)
          /\ h' = [h EXCEPT ![p] = [Respond([h[p] EXCEPT !.wrote = @ \cup {"audit"}],
                                            200, "verified") EXCEPT !.status = h[p].status]]
    /\ UNCHANGED <<users, cur, audits, now, runs, applied, lastFetch, cancels>>

VerifyStep(p, Bodies, Responses) ==
    \/ \E body \in Bodies : VerifyReceive(p, body)
    \/ VerifyReject(p)
    \/ VerifyFetch(p, Responses)
    \/ VerifyAudit(p)

\* The verify requests of the runs that race: one user, one product, one token.
RaceVerifyBodies ==
    {b \in VerifyBodies : b.userId = "u1" /\ b.subscriptionId = "genevolut_champ"
                           /\ b.purchaseToken = "tok1"}

RtdnStep(p, Bodies, Responses) ==
    \/ \E body \in Bodies : RtdnReceive(p, body)
    \/ RtdnFindUser(p)
    \/ RtdnFetch(p, Responses)
    \/ RtdnWriteUser(p)
    \/ RtdnWriteCur(p)
    \/ RtdnWriteAudit(p)

\* ------------------------------ Google Play server, the later revision
\* The revision of server.js (lines 667-912) whose verify endpoint writes the
\* entitlement: handlers "verify3" and "rtdn3".

\* let status = "cancelled"; if (expiryTime > Date.now()) status =
\*   paymentState === 1 && !cancelReason ? "active" : "pending";
\* !cancelReason is true for an absent cancelReason and for the code 0.
ResolveStatus3(expiry, t, paymentState, cancelReason) ==
    IF expiry > t
    THEN (IF paymentState = 1 /\ cancelReason \in {NoInt, 0} THEN "active" ELSE "pending")
    ELSE "cancelled"

\* The catch blocks: verify answers 500 (lines 814-817), RTDN 200 (893-896).
Catch3(p) ==
    h' = [h EXCEPT ![p] = Respond(h[p], IF h[p].handler = "verify3" THEN 500 ELSE 200, "error")]

\* Lines 756-785: validate the body, decode the integrity token; an untrusted
\* verdict is answered 403 with nothing written.
Verify3Receive(p, body) ==
    /\ CanStart(p)
    /\ runs' = runs + 1
    /\ LET run == [Idle EXCEPT !.handler = "verify3", !.ev = body, !.uid = body.userId]
       IN  \/ /\ body.kind = "missing"
              /\ h' = [h EXCEPT ![p] = Respond(run, 400, "malformed")]
           \/ /\ body.kind = "verify"
              /\ \/ h' = [h EXCEPT ![p] = Respond(run, 500, "error")]
                 \/ \E v \in Verdicts :
                      LET decoded == [run EXCEPT !.calls = {"integrity"}, !.verdict = v]
                      IN  IF Trusted(v)
                          THEN h' = [h EXCEPT ![p] = [decoded EXCEPT !.pc = "g3_fetch"]]
                          ELSE h' = [h EXCEPT ![p] = Respond(decoded, 403, "integrity_failed")]
    /\ UNCHANGED <<users, cur, audits, vaudits, now, applied, lastFetch, cancels>>

\* Lines 849-860: decode the message; req.body.message.data of a body without
\* it throws into the catch block.
Rtdn3Receive(p, body) ==
    /\ CanStart(p)
    /\ runs' = runs + 1
    /\ LET run == [Idle EXCEPT !.handler = "rtdn3", !.ev = body]
       IN  \/ /\ body.kind \in {"badjson", "nodata"}
              /\ h' = [h EXCEPT ![p] = Respond(run, 200, "error")]
           \/ /\ body.kind = "notsub"
              /\ h' = [h EXCEPT ![p] = Respond(run, 200, "malformed")]
           \/ /\ body.kind = "sub"
              /\ h' = [h EXCEPT ![p] = [run EXCEPT !.pc = "r3_find"]]
    /\ UNCHANGED <<users, cur, audits, vaudits, now, applied, lastFetch, cancels>>

\* Lines 861-866, 890: map purchaseToken to userId.
Rtdn3Find(p) ==
    /\ h[p].pc = "r3_find"
    /\ LET found == FindUserByToken(h[p].ev.purchaseToken)
       IN  \/ Catch3(p)
           \/ /\ found = {}
              /\ h' = [h EXCEPT ![p] = Respond([h[p] EXCEPT !.calls = {"read"}], 200, "nouser")]
           \/ /\ found # {}
              /\ h' = [h EXCEPT ![p].uid = FirstUser(found), ![p].pc = "g3_fetch",
                                ![p].calls = {"read"}]
    /\ UNCHANGED <<users, cur, audits, vaudits, now, runs, applied, lastFetch, cancels>>

\* Lines 787-804 and 868-885: purchases.subscriptions.get and the resolution.
Fetch3(p, Responses) ==
    /\ h[p].pc = "g3_fetch"
    /\ \/ Catch3(p)
       \/ \E r \in Responses :
            LET expiry == ParseExpiry(r.expiryTimeMillis)
                status == ResolveStatus3(expiry, now, r.paymentState, r.cancelReason)
            IN  h' = [h EXCEPT ![p].resp = r, ![p].expiry = expiry, ![p].status = status,
                               ![p].pc = "g3_write_user", ![p].calls = @ \cup {"fetch"}]
    /\ UNCHANGED <<users, cur, audits, vaudits, now, runs, applied, lastFetch, cancels>>

\* updateFirestoreWithGooglePlay, lines 723-744: userRef.set({...}, {merge: true}).
WriteUser3(p) ==
    /\ h[p].pc = "g3_write_user"
    /\ \/ /\ Catch3(p)
          /\ UNCHANGED users
       \/ /\ users' = [users EXCEPT ![h[p].uid] = MergeSet(@,
                [subscription_tier |-> NormalizedTier(h[p].status, h[p].ev.subscriptionId),
                 subscriptionStatus |-> h[p].status,
                 provider |-> "google_play",
                 productId |-> h[p].ev.subscriptionId,
                 purchaseToken |-> h[p].ev.purchaseToken])]
          /\ h' = [h EXCEPT ![p].pc = "g3_write_cur", ![p].wrote = @ \cup {"users"}]
    /\ UNCHANGED <<cur, audits, vaudits, now, runs, applied, lastFetch, cancels>>

\* updateFirestoreWithGooglePlay, lines 746-752: subscriptions/current set({...});
\* then res.json({status, ...}) (806-813) or res.sendStatus(200) (892).
WriteCur3(p) ==
    /\ h[p].pc = "g3_write_cur"
    /\ \/ /\ Catch3(p)
          /\ UNCHANGED cur
       \/ /\ cur' = [cur EXCEPT ![h[p].uid] = PlainSet(NoCurDoc,
                [tier |-> NormalizedTier(h[p].status, h[p].ev.subscriptionId),
                 status |-> h[p].status,
                 productId |-> h[p].ev.subscriptionId,
                 purchaseToken |-> h[p].ev.purchaseToken])]
          /\ h' = [h EXCEPT ![p] = [Respond([h[p] EXCEPT !.wrote = @ \cup {"cur"}], 200,
                                            IF h[p].handler = "verify3" THEN "verified"
                                            ELSE "processed")
                                    EXCEPT !.status = h[p].status]]
    /\ UNCHANGED <<users, audits, vaudits, now, runs, applied, lastFetch, cancels>>

Step3(p, VBodies, RBodies, Responses) ==
    \/ \E body \in VBodies : Verify3Receive(p, body)
    \/ \E body \in RBodies : Rtdn3Receive(p, body)
    \/ Rtdn3Find(p)
    \/ Fetch3(p, Responses)
    \/ WriteUser3(p)
    \/ WriteCur3(p)

\* ---------------------------------------------------- PayPal webhook handler
Emails == {"a@x.com"}
Customers == {"cus_1"}
Subs == {"I-1", "I-2"}
Tiers == {"Champ", "Grandmaster"}
\* validPlanIds (part_006:356-359), and a plan id that contains "GM".
ChampPlan == "P-9UR452758A657971KNCLU56Y"
GrandmasterPlan == "P-17E41445D70627342NCLVAWY"
PlanIds == {ChampPlan, GrandmasterPlan, "P-GM-1"}
\* const validPlanIds = {"Champ": ..., "Grandmaster": ...}
ValidPlanIds == [Champ |-> ChampPlan, Grandmaster |-> GrandmasterPlan]

PayPalLifecycle ==
    {"BILLING.SUBSCRIPTION.ACTIVATED", "BILLING.SUBSCRIPTION.CANCELLED",
     "BILLING.SUBSCRIPTION.SUSPENDED", "BILLING.SUBSCRIPTION.EXPIRED",
     "BILLING.SUBSCRIPTION.PAYMENT.FAILED"}

\* Bodies of POST /paypal/webhook: event_type, resource.id, resource.plan_id,
\* resource.custom_id, resource.subscriber.email_address; "incomplete" lacks
\* event_type, resource or resource.id; "UNKNOWN" is an event type of no case.
\* plan_id and the subscriber email vary where the handler reads them, in the
\* ACTIVATED case.
PayPalBodies ==
    {Body(r) : r \in [kind : {"incomplete"}]}
    \cup
    {Body(r) : r \in [kind : {"BILLING.SUBSCRIPTION.ACTIVATED"},
                      subscriptionId : Subs, planId : PlanIds \cup {ABSENT},
                      userId : Users \cup {ABSENT}, email : Emails \cup {ABSENT}]}
    \cup
    {Body(r) : r \in [kind : (PayPalLifecycle \ {"BILLING.SUBSCRIPTION.ACTIVATED"})
                               \cup {"PAYMENT.SALE.COMPLETED", "UNKNOWN"},
                      subscriptionId : Subs, userId : Users \cup {ABSENT}]}

\* planId.includes("GM")
IncludesGM(planId) == planId \in {"P-GM-1"}

\* const tier = planId.includes("GM") ? "Grandmaster" : "Champ";
PayPalTier(planId) == IF IncludesGM(planId) THEN "Grandmaster" ELSE "Champ"

\* resource.plan_id || "N/A"
PayPalPlanId(body) == IF body.planId = ABSENT THEN "N/A" ELSE body.planId

\* users.where("payerEmail", "==", payerEmail), then docs with doc.id !== uid.
ConflictUsers(email, uid) == {u \in Users : users[u].payerEmail = email /\ u # uid}

\* Another user holds an active entitlement bound to the payer identity: with
\* this, an activation for uid is a conflicting one (recorded in the run's
\* history field `conflict`).
ActiveElsewhere(email, uid) ==
    \E u \in Users : u # uid /\ users[u].subscriptionStatus = "active"
                     /\ users[u].payerEmail = email

\* The catch block with the answer 500 in place of 200.
PayPalCatch500(p) == h' = [h EXCEPT ![p] = Respond(h[p], 500, "error")]

\* The catch block: console.error, res.sendStatus(200).
PayPalCatch(p) == h' = [h EXCEPT ![p] = Respond(h[p], 200, "error")]

\* Lines 389-414 and the cases that await nothing: the payload check, the
\* dispatch on event_type, PAYMENT.SALE.COMPLETED and default.
PayPalReceive(p, body) ==
    /\ CanStart(p)
    /\ runs' = runs + 1
    /\ LET run == [Idle EXCEPT !.handler = "paypal", !.ev = body, !.uid = body.userId]
           userRef == body.userId # ABSENT
       IN  IF body.kind = "incomplete"
           THEN h' = [h EXCEPT ![p] = Respond(run, InvalidPayloadStatus, "malformed")]
           ELSE IF body.kind = "BILLING.SUBSCRIPTION.ACTIVATED" /\ body.email # ABSENT /\ userRef
           THEN h' = [h EXCEPT ![p] = [run EXCEPT !.pc = "pp_query"]]
           ELSE IF body.kind = "BILLING.SUBSCRIPTION.CANCELLED" /\ userRef
           THEN h' = [h EXCEPT ![p] = [run EXCEPT !.pc = "pp_cancelled_user"]]
           ELSE IF body.kind \in {"BILLING.SUBSCRIPTION.SUSPENDED",
                                  "BILLING.SUBSCRIPTION.EXPIRED"} /\ userRef
           THEN h' = [h EXCEPT ![p] = [run EXCEPT !.pc = "pp_status"]]
           ELSE IF body.kind = "BILLING.SUBSCRIPTION.PAYMENT.FAILED" /\ userRef
           THEN h' = [h EXCEPT ![p] = [run EXCEPT !.pc = "pp_failed_user"]]
           ELSE h' = [h EXCEPT ![p] = Respond(run, 200,
                        IF body.kind \in PayPalLifecycle \cup {"PAYMENT.SALE.COMPLETED"}
                        THEN "ignored" ELSE "unknown")]
    /\ UNCHANGED <<users, cur, audits, vaudits, now, applied, lastFetch, cancels>>

\* Lines 416-423: look for another account with the payer email.
PayPalConflictQuery(p) ==
    /\ h[p].pc = "pp_query"
    /\ \/ PayPalCatch(p)
       \/ h' = [h EXCEPT ![p].pc = IF ConflictUsers(h[p].ev.email, h[p].uid) # {}
                                   THEN "pp_cancel" ELSE "pp_write_user",
                         ![p].calls = @ \cup {"read"},
                         ![p].conflict = ActiveElsewhere(h[p].ev.email, h[p].uid)]
    /\ UNCHANGED <<users, cur, audits, vaudits, now, runs, applied, lastFetch, cancels>>

\* Lines 424-439: get an access token, cancel the duplicate subscription at
\* PayPal, respond.  getPayPalAccessToken may throw (no cancel is requested),
\* and so may the cancel request.
PayPalCancelDuplicate(p) ==
    /\ h[p].pc = "pp_cancel"
    /\ \/ /\ PayPalCatch(p)
          /\ UNCHANGED cancels
       \/ /\ h' = [h EXCEPT ![p] = Respond([h[p] EXCEPT !.calls = @ \cup {"cancel"}], 200, "error")]
          /\ UNCHANGED cancels
       \/ /\ cancels' = cancels \cup {h[p].ev.subscriptionId}
          /\ h' = [h EXCEPT ![p] = Respond([h[p] EXCEPT !.calls = @ \cup {"cancel"}], 200, "conflict")]
    /\ UNCHANGED <<users, cur, audits, vaudits, now, runs, applied, lastFetch>>

\* Lines 441-450: userRef.set({...}, {merge: true}).
PayPalWriteUser(p) ==
    /\ h[p].pc = "pp_write_user"
    /\ \/ /\ PayPalCatch(p)
          /\ UNCHANGED users
       \/ /\ users' = [users EXCEPT ![h[p].uid] = MergeSet(@,
                [subscriptionId |-> h[p].ev.subscriptionId,
                 planId |-> PayPalPlanId(h[p].ev),
                 subscriptionStatus |-> "active",
                 payerEmail |-> h[p].ev.email,
                 subscription_tier |-> PayPalTier(PayPalPlanId(h[p].ev)),
                 event |-> NoKey])]
          /\ h' = [h EXCEPT ![p].pc = "pp_write_cur", ![p].wrote = @ \cup {"users"}]
    /\ UNCHANGED <<cur, audits, vaudits, now, runs, applied, lastFetch, cancels>>

\* Lines 452-463, 542: subscriptions/current set({...}), respond.
PayPalWriteCur(p) ==
    /\ h[p].pc = "pp_write_cur"
    /\ \/ /\ PayPalCatch(p)
          /\ UNCHANGED cur
       \/ /\ cur' = [cur EXCEPT ![h[p].uid] = PlainSet(NoCurDoc,
                [status |-> "active",
                 tier |-> PayPalTier(PayPalPlanId(h[p].ev)),
                 planId |-> PayPalPlanId(h[p].ev),
                 subscriptionId |-> h[p].ev.subscriptionId,
                 payerEmail |-> h[p].ev.email])]
          /\ h' = [h EXCEPT ![p] = Respond([h[p] EXCEPT !.wrote = @ \cup {"cur"}], 200, "processed")]
    /\ UNCHANGED <<users, audits, vaudits, now, runs, applied, lastFetch, cancels>>

\* Lines 465-471: BILLING.SUBSCRIPTION.CANCELLED, the user document.
PayPalCancelledUser(p) ==
    /\ h[p].pc = "pp_cancelled_user"
    /\ \/ /\ PayPalCatch(p)
          /\ UNCHANGED users
       \/ /\ users' = [users EXCEPT ![h[p].uid] = MergeSet(@,
                [subscriptionStatus |-> "cancelled", subscription_tier |-> "Free",
                 event |-> NoKey])]
          /\ h' = [h EXCEPT ![p].pc = "pp_cancelled_cur", ![p].wrote = @ \cup {"users"}]
    /\ UNCHANGED <<cur, audits, vaudits, now, runs, applied, lastFetch, cancels>>

\* Lines 473-483, 542: BILLING.SUBSCRIPTION.CANCELLED, subscriptions/current.
PayPalCancelledCur(p) ==
    /\ h[p].pc = "pp_cancelled_cur"
    /\ \/ /\ PayPalCatch(p)
          /\ UNCHANGED cur
       \/ /\ cur' = [cur EXCEPT ![h[p].uid] = PlainSet(NoCurDoc,
                [status |-> "cancelled", tier |-> "Free", planId |-> NULL,
                 subscriptionId |-> NULL])]
          /\ h' = [h EXCEPT ![p] = Respond([h[p] EXCEPT !.wrote = @ \cup {"cur"}], 200, "processed")]
    /\ UNCHANGED <<users, audits, vaudits, now, runs, applied, lastFetch, cancels>>

\* PayPalStatus with the EXPIRED case storing the status of SUSPENDED.
PayPalStatusNoExpired(kind) ==
    IF kind \in {"BILLING.SUBSCRIPTION.SUSPENDED", "BILLING.SUBSCRIPTION.EXPIRED"}
    THEN "suspended" ELSE "payment_failed"

\* The status a lifecycle event stores (lines 488, 498, 508).
PayPalStatus(kind) ==
    IF kind = "BILLING.SUBSCRIPTION.SUSPENDED" THEN "suspended"
    ELSE IF kind = "BILLING.SUBSCRIPTION.EXPIRED" THEN "expired"
    ELSE "payment_failed"

\* The data of userRef.set({subscriptionStatus, updatedAt}, {merge: true}).
PayPalStatusData(kind) == [subscriptionStatus |-> PayPalStatus(kind), event |-> NoKey]

\* Lines 485-503, 542: BILLING.SUBSCRIPTION.SUSPENDED and EXPIRED.
PayPalStatusOnly(p) ==
    /\ h[p].pc = "pp_status"
    /\ \/ /\ PayPalCatch(p)
          /\ UNCHANGED users
       \/ /\ users' = [users EXCEPT ![h[p].uid] = MergeSet(@, PayPalStatusData(h[p].ev.kind))]
          /\ h' = [h EXCEPT ![p] = Respond([h[p] EXCEPT !.wrote = @ \cup {"users"}], 200, "processed")]
    /\ UNCHANGED <<cur, audits, vaudits, now, runs, applied, lastFetch, cancels>>

\* Lines 505-512: BILLING.SUBSCRIPTION.PAYMENT.FAILED, the user document.
PayPalFailedUser(p) ==
    /\ h[p].pc = "pp_failed_user"
    /\ \/ /\ PayPalCatch(p)
          /\ UNCHANGED users
       \/ /\ users' = [users EXCEPT ![h[p].uid] = MergeSet(@, PayPalStatusData(h[p].ev.kind))]
          /\ h' = [h EXCEPT ![p].pc = "pp_autocancel", ![p].wrote = @ \cup {"users"}]
    /\ UNCHANGED <<cur, audits, vaudits, now, runs, applied, lastFetch, cancels>>

\* Lines 514-532, 542: cancel at PayPal inside its own try/catch, respond.
PayPalAutoCancel(p) ==
    /\ h[p].pc = "pp_autocancel"
    /\ \/ UNCHANGED cancels
       \/ cancels' = cancels \cup {h[p].ev.subscriptionId}
    /\ h' = [h EXCEPT ![p] = Respond([h[p] EXCEPT !.calls = @ \cup {"cancel"}], 200, "processed")]
    /\ UNCHANGED <<users, cur, audits, vaudits, now, runs, applied, lastFetch>>

\* The Android client, PayPalSubscriptionViewModel.startSubscription (lines
\* 21-45): createSubscription returned a subscription id (with the approval
\* link the payer has yet to follow), and saveSubscriptionToFirestore (lines
\* 50-68) sets users/{uid}/subscriptions/current with status "active".
StartSubscription(uid, planId, tier, subscriptionId) ==
    /\ cur' = [cur EXCEPT ![uid] = PlainSet(NoCurDoc,
            [tier |-> tier, planId |-> planId, subscriptionId |-> subscriptionId,
             status |-> "active"])]
    /\ UNCHANGED <<users, audits, vaudits, now, h, runs, applied, lastFetch, cancels>>

PayPalStep(p, Bodies) ==
    \/ \E body \in Bodies : PayPalReceive(p, body)
    \/ PayPalConflictQuery(p)
    \/ PayPalCancelDuplicate(p)
    \/ PayPalWriteUser(p)
    \/ PayPalWriteCur(p)
    \/ PayPalCancelledUser(p)
    \/ PayPalCancelledCur(p)
    \/ PayPalStatusOnly(p)
    \/ PayPalFailedUser(p)
    \/ PayPalAutoCancel(p)

\* ---------------------------------------------------- Stripe webhook handler
\* ---------------------------------------------------------------------
\* POST /api/paypal/subscription (part_006:361-386) and the verify request
\* with its five fields (server.js:134-140).

\* !x for a request field: the field is absent or the empty string.
Missing(x) == x = ABSENT \/ x = ""

\* req.body of POST /api/paypal/subscription.
SubscriptionRequests ==
    [planId : PlanIds \cup {ABSENT, ""}, userId : {"u1", ABSENT},
     tier : Tiers \cup {"Free", ABSENT}, userEmail : Emails \cup {ABSENT}]

\* The validation with the plan check left out.
SubscriptionRejectedFieldsOnly(req) ==
    IF Missing(req.planId) \/ Missing(req.userId) \/ Missing(req.tier)
    THEN "missing_fields"
    ELSE ABSENT

\* if (!planId || !userId || !tier) return 400;
\* if (validPlanIds[tier] !== planId) return 400;
\* validPlanIds[tier] is undefined for a tier the table does not list.
SubscriptionRejected(req) ==
    IF Missing(req.planId) \/ Missing(req.userId) \/ Missing(req.tier)
    THEN "missing_fields"
    ELSE IF req.tier \notin DOMAIN ValidPlanIds \/ ValidPlanIds[req.tier] # req.planId
         THEN "invalid_plan"
         ELSE ABSENT

SubscriptionReceive(p, req) ==
    /\ CanStart(p)
    /\ runs' = runs + 1
    /\ LET run == [Idle EXCEPT !.handler = "subscription", !.uid = req.userId,
                               !.ev = Body([kind |-> "subscription", userId |-> req.userId,
                                            planId |-> req.planId, tier |-> req.tier,
                                            email |-> req.userEmail])]
       IN  IF SubscriptionRejected(req) # ABSENT
           THEN h' = [h EXCEPT ![p] = Respond(run, 400, SubscriptionRejected(req))]
           ELSE h' = [h EXCEPT ![p] = [run EXCEPT !.pc = "sub_token"]]
    /\ UNCHANGED <<users, cur, audits, vaudits, now, applied, lastFetch, cancels>>

\* createPayPalSubscription: const accessToken = await getPayPalAccessToken();
SubscriptionToken(p) ==
    /\ h[p].pc = "sub_token"
    /\ \/ h' = [h EXCEPT ![p] = Respond(h[p], 500, "error")]
       \/ h' = [h EXCEPT ![p].pc = "sub_create", ![p].calls = @ \cup {"token"}]
    /\ UNCHANGED <<users, cur, audits, vaudits, now, runs, applied, lastFetch, cancels>>

\* await axios.post(`${PAYPAL_API}/v1/billing/subscriptions`, ...); res.json(result)
SubscriptionCreate(p) ==
    /\ h[p].pc = "sub_create"
    /\ \/ h' = [h EXCEPT ![p] = Respond(h[p], 500, "error")]
       \/ h' = [h EXCEPT ![p] = Respond([h[p] EXCEPT !.calls = @ \cup {"create"}],
                                        200, "created")]
    /\ UNCHANGED <<users, cur, audits, vaudits, now, runs, applied, lastFetch, cancels>>

\* req.body of POST /api/googleplay/verify, field by field.
VerifyRequests ==
    [packageName : {"com.app", ABSENT}, productId : {"genevolut_champ", ABSENT},
     purchaseToken : {"tok1", "", ABSENT}, userId : {"u1", ABSENT},
     integrityToken : {"it1", ABSENT}]

\* The request as the verify handler goes on with it.
\* if (!packageName || !productId || !purchaseToken || !userId || !integrityToken)
VerifyBodyOf(req) ==
    Body([kind |-> IF \/ Missing(req.packageName) \/ Missing(req.productId)
                      \/ Missing(req.purchaseToken) \/ Missing(req.userId)
                      \/ Missing(req.integrityToken)
                   THEN "missing" ELSE "verify",
          subscriptionId |-> req.productId, purchaseToken |-> req.purchaseToken,
          userId |-> req.userId])

\* ---------------------------------------------------------------------
StripeSubs == {"sub_1", "sub_2"}
StripeStatuses == {"active", "past_due"}
StripeUpdates == {"invoice.paid", "customer.subscription.created", "customer.subscription.updated"}

\* Requests to POST /webhook/stripe: kind is event.type, or "bad_signature" when
\* constructEvent throws; subscriptionId is data.subscription or sub.id, userId
\* and tier are metadata.uid and metadata.tier, customer is data.customer,
\* status is sub.status.
StripeBodies ==
    {Body(r) : r \in [kind : {"bad_signature"}]}
    \cup
    {Body(r) : r \in [kind : {"checkout.session.completed", "invoice.payment_failed",
                              "customer.subscription.deleted", "charge.succeeded"},
                      subscriptionId : StripeSubs \cup {ABSENT}, userId : Users \cup {ABSENT},
                      tier : Tiers \cup {ABSENT}, customer : Customers]}
    \cup
    {Body(r) : r \in [kind : StripeUpdates, subscriptionId : StripeSubs,
                      userId : Users \cup {ABSENT}, tier : Tiers \cup {ABSENT},
                      customer : Customers \cup {ABSENT}, status : StripeStatuses]}

\* x || null
OrNull(x) == IF x = ABSENT THEN NULL ELSE x

\* const isActive = status === "active" && subscriptionId;
\* const normalizedTier = isActive ? tier : "Free";
StripeNormalizedTier(status, subscriptionId, tier) ==
    IF status = "active" /\ subscriptionId \notin {ABSENT, NULL} THEN tier ELSE "Free"

\* normalizedTier.toLowerCase() === "grandmaster" ? 100 : ... === "champ" ? 10 : 2
\* String.prototype.toLowerCase on the tier names of the model.
ToLowerCase(str) ==
    CASE str = "Grandmaster" -> "grandmaster"
      [] str = "Champ" -> "champ"
      [] str = "Free" -> "free"
      [] OTHER -> str

\* The credits table with the tier compared as it is stored.
CreditsExactCase(normalizedTier) ==
    IF normalizedTier = "Grandmaster" THEN 100
    ELSE IF normalizedTier = "Champ" THEN 10
    ELSE 2

Credits(normalizedTier) ==
    IF ToLowerCase(normalizedTier) = "grandmaster" THEN 100
    ELSE IF ToLowerCase(normalizedTier) = "champ" THEN 10
    ELSE 2

\* constructEvent that accepts every payload.
SignatureValidAlways(body) == TRUE

\* stripe.webhooks.constructEvent(req.body, signature, secret) does not throw.
SignatureValid(body) == body.kind # "bad_signature"

\* The background task ends: its errors are logged, the response was sent.
\* The background function of the Stripe webhook ends without touching res:
\* the response was sent before it started (part_006:97).
StripeEndResponding(run, outcome) == Respond(run, run.http, outcome)

StripeEnd(run, outcome) == Finish(run, run.http, outcome)

\* Lines 82-112, 132-157, 174-176: constructEvent, the response, the dispatch on
\* event.type up to the first await.
StripeReceive(p, body) ==
    /\ CanStart(p)
    /\ runs' = runs + 1
    /\ LET run == [Idle EXCEPT !.handler = "stripe", !.ev = body, !.http = 200, !.sent = 1]
           uid == body.userId
       IN  IF ~SignatureValid(body)
           THEN h' = [h EXCEPT ![p] = Respond([run EXCEPT !.http = 0, !.sent = 0],
                                              400, "bad_signature")]
           ELSE IF body.kind = "checkout.session.completed"
           THEN IF uid # ABSENT /\ body.subscriptionId # ABSENT /\ body.tier # ABSENT
                THEN h' = [h EXCEPT ![p] = [run EXCEPT !.pc = "st_customer", !.uid = uid,
                              !.tier = body.tier, !.status = "active"]]
                ELSE h' = [h EXCEPT ![p] = StripeEnd(run, "ignored")]
           ELSE IF body.kind \in StripeUpdates
           THEN IF uid # ABSENT /\ body.tier # ABSENT /\ body.customer # ABSENT
                THEN h' = [h EXCEPT ![p] = [run EXCEPT !.pc = "st_write_user", !.uid = uid,
                              !.tier = body.tier, !.status = body.status,
                              !.ident = body.customer,
                              !.conflict = body.status = "active"
                                           /\ ActiveElsewhere(body.customer, uid)]]
                ELSE h' = [h EXCEPT ![p] = StripeEnd(run, "ignored")]
           ELSE IF body.kind = "customer.subscription.deleted"
           THEN IF uid # ABSENT
                THEN h' = [h EXCEPT ![p] = [run EXCEPT !.pc = "st_write_user", !.uid = uid,
                              !.ev = [body EXCEPT !.subscriptionId = NULL],
                              !.tier = "Free", !.status = "cancelled", !.ident = NULL]]
                ELSE h' = [h EXCEPT ![p] = StripeEnd(run, "ignored")]
           ELSE IF body.kind = "invoice.payment_failed"
           THEN h' = [h EXCEPT ![p] = [run EXCEPT !.pc = "st_retrieve"]]
           ELSE h' = [h EXCEPT ![p] = StripeEnd(run, "unknown")]
    /\ UNCHANGED <<users, cur, audits, vaudits, now, applied, lastFetch, cancels>>

\* Lines 113-114: stripe.customers.retrieve(customerId), customer.email.
StripeCustomer(p, EmailDomain) ==
    /\ h[p].pc = "st_customer"
    /\ \/ h' = [h EXCEPT ![p] = StripeEnd(h[p], "error")]
       \/ \E e \in EmailDomain :
            h' = [h EXCEPT ![p].ident = e, ![p].pc = "st_query",
                           ![p].calls = @ \cup {"customer"}]
    /\ UNCHANGED <<users, cur, audits, vaudits, now, runs, applied, lastFetch, cancels>>

\* Lines 116-120: look for another account with the payer email.
StripeConflictQuery(p) ==
    /\ h[p].pc = "st_query"
    /\ \/ h' = [h EXCEPT ![p] = StripeEnd(h[p], "error")]
       \/ h' = [h EXCEPT ![p].pc = IF ConflictUsers(h[p].ident, h[p].uid) # {}
                                   THEN "st_cancel" ELSE "st_write_user",
                         ![p].calls = @ \cup {"read"},
                         ![p].conflict = ActiveElsewhere(h[p].ident, h[p].uid)]
    /\ UNCHANGED <<users, cur, audits, vaudits, now, runs, applied, lastFetch, cancels>>

\* Lines 121-123: stripe.subscriptions.del(subId), return.
StripeCancelDuplicate(p) ==
    /\ h[p].pc = "st_cancel"
    /\ \/ /\ h' = [h EXCEPT ![p] = StripeEnd([h[p] EXCEPT !.calls = @ \cup {"cancel"}], "error")]
          /\ UNCHANGED cancels
       \/ /\ cancels' = cancels \cup {h[p].ev.subscriptionId}
          /\ h' = [h EXCEPT ![p] = StripeEnd([h[p] EXCEPT !.calls = @ \cup {"cancel"}], "conflict")]
    /\ UNCHANGED <<users, cur, audits, vaudits, now, runs, applied, lastFetch>>

\* Lines 159-168: stripe.subscriptions.retrieve(sub) and its metadata.
StripeRetrieve(p) ==
    /\ h[p].pc = "st_retrieve"
    /\ \/ h' = [h EXCEPT ![p] = StripeEnd(h[p], "error")]
       \/ /\ h[p].ev.subscriptionId # ABSENT
          /\ \E uid \in Users \cup {ABSENT}, tier \in Tiers \cup {ABSENT} :
               IF uid # ABSENT /\ tier # ABSENT
               THEN h' = [h EXCEPT ![p].pc = "st_write_user", ![p].uid = uid,
                                   ![p].tier = tier, ![p].status = "payment_failed",
                                   ![p].ident = h[p].ev.customer,
                                   ![p].calls = @ \cup {"retrieve"}]
               ELSE h' = [h EXCEPT ![p] = StripeEnd([h[p] EXCEPT !.calls = @ \cup {"retrieve"}],
                                                    "ignored")]
    /\ UNCHANGED <<users, cur, audits, vaudits, now, runs, applied, lastFetch, cancels>>

\* updateSubscriptionInFirestore, lines 41-68: userRef.set(userData, {merge: true}).
StripeWriteUser(p) ==
    /\ h[p].pc = "st_write_user"
    /\ \/ /\ h' = [h EXCEPT ![p] = StripeEnd(h[p], "error")]
          /\ UNCHANGED users
       \/ /\ LET normalizedTier == StripeNormalizedTier(h[p].status, h[p].ev.subscriptionId, h[p].tier)
             IN  users' = [users EXCEPT ![h[p].uid] = MergeSet(@,
                    [subscription_tier |-> normalizedTier,
                     subscriptionStatus |-> h[p].status,
                     stripeSubscriptionId |-> OrNull(h[p].ev.subscriptionId),
                     payerEmail |-> OrNull(h[p].ident),
                     platform |-> "stripe",
                     provider |-> "stripe",
                     credits |-> Credits(normalizedTier),
                     event |-> NoKey])]
          /\ h' = [h EXCEPT ![p].pc = "st_write_cur", ![p].wrote = @ \cup {"users"}]
    /\ UNCHANGED <<cur, audits, vaudits, now, runs, applied, lastFetch, cancels>>

\* updateSubscriptionInFirestore, lines 70-78: subscriptions/current set({...}).
StripeWriteCur(p) ==
    /\ h[p].pc = "st_write_cur"
    /\ \/ /\ h' = [h EXCEPT ![p] = StripeEnd(h[p], "error")]
          /\ UNCHANGED cur
       \/ /\ cur' = [cur EXCEPT ![h[p].uid] = PlainSet(NoCurDoc,
                [tier |-> StripeNormalizedTier(h[p].status, h[p].ev.subscriptionId, h[p].tier),
                 status |-> h[p].status,
                 platform |-> "stripe",
                 provider |-> "stripe",
                 subscriptionId |-> OrNull(h[p].ev.subscriptionId),
                 payerEmail |-> OrNull(h[p].ident)])]
          /\ h' = [h EXCEPT ![p] = StripeEnd([h[p] EXCEPT !.wrote = @ \cup {"cur"}], "processed")]
    /\ UNCHANGED <<users, audits, vaudits, now, runs, applied, lastFetch, cancels>>

StripeStep(p, Bodies, EmailDomain) ==
    \/ \E body \in Bodies : StripeReceive(p, body)
    \/ StripeCustomer(p, EmailDomain)
    \/ StripeConflictQuery(p)
    \/ StripeCancelDuplicate(p)
    \/ StripeRetrieve(p)
    \/ StripeWriteUser(p)
    \/ StripeWriteCur(p)

\* ------------------------------------------------------------ initial state
\* The store as earlier deployments left it: u1 holds purchase token tok1
\* (written by the verify endpoint of the earlier revisions, server.js:806),
\* u2 has no subscription; no RTDN audit record exists yet.
BoundCur(token, productId) ==
    [NoCurDoc EXCEPT !.tier = "Free", !.status = "pending", !.productId = productId,
                     !.purchaseToken = token]

BoundUser(token, productId) ==
    [NoUserDoc EXCEPT !.subscription_tier = "Free", !.subscriptionStatus = "pending",
                      !.provider = "google_play", !.productId = productId,
                      !.purchaseToken = token]

NoLastDone ==
    [key |-> NoKey, outcome |-> ABSENT, users |-> <<>>, cur |-> <<>>, redelivery |-> FALSE,
     retry |-> FALSE, occ |-> NoInt, unbound |-> FALSE]

Init ==
    /\ users = [u \in Users |-> IF u = "u1" THEN BoundUser("tok1", "genevolut_champ") ELSE NoUserDoc]
    /\ cur = [u \in Users |-> IF u = "u1" THEN BoundCur("tok1", "genevolut_champ") ELSE NoCurDoc]
    /\ audits = [k \in Keys |-> NoAuditDoc]
    /\ vaudits = <<>>
    /\ now = 1
    /\ h = [p \in Procs |-> Idle]
    /\ runs = 0
    /\ applied = [k \in Keys |-> 0]
    /\ lastFetch = [t \in Tokens |-> ABSENT]
    /\ cancels = {}
    /\ lastDone = NoLastDone

\* ----------------------------------------------------------- specifications
\* Concurrent requests to the Google Play server.
NextPlay ==
    /\ \E p \in Procs :
          \/ RtdnStep(p, RaceBodies, RaceResponses)
          \/ VerifyStep(p, RaceVerifyBodies, RaceResponses)
    /\ UNCHANGED lastDone

SpecPlay == Init /\ [][NextPlay]_vars

\* Concurrent RTDN deliveries answered with responses that name a payment
\* state and a cancel reason, the ones whose audit record can be stored.
NextRecorded ==
    /\ \E p \in Procs :
          RtdnStep(p, RaceBodies, {r \in PlayResponses : ~UndefinedInExtra(r)})
    /\ UNCHANGED lastDone

SpecRecorded == Init /\ [][NextRecorded]_vars

\* Each user has one subscription id per provider.
OwnSub(b) ==
    /\ b.userId = "u1" => b.subscriptionId \in {"I-1", "sub_1", ABSENT}
    /\ b.userId = "u2" => b.subscriptionId \in {"I-2", "sub_2", ABSENT}
    /\ b.userId = ABSENT => b.subscriptionId \in {"I-1", "sub_1", ABSENT}

\* The webhook deliveries that race: one plan, one tier, the payer email only
\* where the handler reads it.
RacePayPalBodies ==
    {b \in PayPalBodies :
        b.kind # "incomplete" =>
            /\ OwnSub(b)
            /\ b.kind = "BILLING.SUBSCRIPTION.ACTIVATED" => b.planId = GrandmasterPlan
            /\ b.kind # "BILLING.SUBSCRIPTION.ACTIVATED" => b.email = ABSENT
            /\ b.userId = ABSENT => b.email = ABSENT}

RaceStripeBodies ==
    {b \in StripeBodies :
        b.kind # "bad_signature" =>
            /\ OwnSub(b)
            /\ b.tier \in {"Grandmaster", ABSENT}
            /\ b.kind \in StripeUpdates => b.kind = "customer.subscription.updated"
            /\ b.userId = ABSENT => b.tier = ABSENT
            /\ b.subscriptionId # ABSENT}

\* Concurrent deliveries to the PayPal / Stripe webhook server; no user has a
\* subscription yet.
InitWeb ==
    /\ users = [u \in Users |-> NoUserDoc]
    /\ cur = [u \in Users |-> NoCurDoc]
    /\ audits = [k \in Keys |-> NoAuditDoc]
    /\ vaudits = <<>>
    /\ now = 1
    /\ h = [p \in Procs |-> Idle]
    /\ runs = 0
    /\ applied = [k \in Keys |-> 0]
    /\ lastFetch = [t \in Tokens |-> ABSENT]
    /\ cancels = {}
    /\ lastDone = NoLastDone

NextWeb ==
    /\ \E p \in Procs :
          \/ PayPalStep(p, RacePayPalBodies)
          \/ StripeStep(p, RaceStripeBodies, Emails)
    /\ UNCHANGED lastDone

SpecWeb == InitWeb /\ [][NextWeb]_vars

\* The purchase_audits documents of an idempotency key, in the collection made
\* of the documents `keyed` (chosen id) and `added` (auto id).
AuditCount(keyed, added, key) ==
    (IF keyed[key] # NoAuditDoc THEN 1 ELSE 0)
    + Cardinality({i \in DOMAIN added :
                     /\ added[i].purchaseToken = key[1]
                     /\ added[i].notificationType = key[2]})

\* A run ends in this step.
Completes(p) == h'[p].pc = "done" /\ (h[p].pc # "done" \/ runs' # runs)

\* A delivery that follows, with nothing in between, a completed delivery of
\* the same key that was processed or found already processed.
Redelivers(p) ==
    /\ h'[p].key # NoKey
    /\ lastDone.key = h'[p].key
    /\ lastDone.outcome \in {"processed", "duplicate"}

\* A delivery that follows, with nothing in between, a delivery of the same
\* key that ended in the catch block because the provider call threw.
Retries(p) ==
    /\ h'[p].key # NoKey
    /\ lastDone.key = h'[p].key
    /\ lastDone.outcome = "provider_error"

\* A delivery that follows, with nothing in between, a delivery of the same
\* key that found no user for the purchase token.
Unbound(p) ==
    /\ h'[p].key # NoKey
    /\ lastDone.key = h'[p].key
    /\ lastDone.outcome = "nouser"

RecordDone(p) ==
    lastDone' = IF Completes(p)
                THEN [key |-> h'[p].key, outcome |-> h'[p].outcome, users |-> users',
                      cur |-> cur', redelivery |-> Redelivers(p), retry |-> Retries(p),
                      occ |-> h'[p].occ, unbound |-> Unbound(p)]
                ELSE lastDone

\* The requests handled one after the other: the token of no user comes with
\* one product and one notification type, each user with its own subscription.
SeqRtdnBodies ==
    {b \in RtdnBodies :
        b.purchaseToken = "tok2" =>
            b.subscriptionId = "genevolut_champ" /\ b.notificationType = 4}

SeqVerifyBodies ==
    {b \in VerifyBodies : b.userId = "u1" /\ b.purchaseToken = "tok1"}

SeqPayPalBodies == {b \in PayPalBodies : OwnSub(b)}

SeqStripeBodies ==
    {b \in StripeBodies :
        /\ OwnSub(b)
        /\ b.kind \in StripeUpdates => b.kind = "customer.subscription.updated"}

\* Requests handled one after the other, by both servers, on the same store.
NextSeq ==
    /\ \/ RtdnStep(1, SeqRtdnBodies, RaceResponses)
       \/ VerifyStep(1, SeqVerifyBodies, RaceResponses)
       \/ PayPalStep(1, SeqPayPalBodies)
       \/ StripeStep(1, SeqStripeBodies, Emails)
    /\ UNCHANGED lastDone

SpecSeq == Init /\ [][NextSeq]_vars

\* Requests to the Google Play server handled one after the other.
NextPlaySeq ==
    /\ \/ RtdnStep(1, SeqRtdnBodies, PlayResponses)
       \/ VerifyStep(1, SeqVerifyBodies, PlayResponses)
    /\ RecordDone(1)

SpecPlaySeq == Init /\ [][NextPlaySeq]_vars

\* Every answer of the provider: paymentState absent or 0..2 (pending, received,
\* free trial), cancelReason absent or 0..3 (user, system, replaced, developer).
WideResponses ==
    [expiryTimeMillis : {NoInt, now, now + 1}, paymentState : {NoInt, 0, 1, 2},
     cancelReason : {NoInt, 0, 1, 2, 3}]

\* Requests for u1's token, one after the other, against every answer of the
\* provider.
NextResolve ==
    /\ \/ RtdnStep(1, {b \in RaceBodies : b.kind = "sub" /\ b.purchaseToken = "tok1"
                                           /\ b.notificationType = 4}, WideResponses)
       \/ VerifyStep(1, {b \in RaceVerifyBodies : b.kind = "verify"}, WideResponses)
    /\ UNCHANGED lastDone

SpecResolve == Init /\ [][NextResolve]_vars

\* The RTDN deliveries of the acknowledgment runs: those that race, and one for
\* u1's token with a notification type Google Play does not define.
AckRtdnBodies ==
    RaceBodies
    \cup {Body([kind |-> "sub", subscriptionId |-> "genevolut_champ",
                purchaseToken |-> "tok1", notificationType |-> 99])}

\* Deliveries to the three notification endpoints, one after the other.
NextAck ==
    /\ \/ RtdnStep(1, AckRtdnBodies, RaceResponses)
       \/ PayPalStep(1, RacePayPalBodies)
       \/ StripeStep(1, RaceStripeBodies, Emails)
    /\ UNCHANGED lastDone

SpecAck == Init /\ [][NextAck]_vars

\* RTDN deliveries, one after the other.
NextLive ==
    /\ RtdnStep(1, RaceBodies, RaceResponses)
    /\ UNCHANGED lastDone

\* The steps that end when Firestore answers or throws.
StoreSteps ==
    /\ RtdnFindUser(1) \/ RtdnWriteUser(1) \/ RtdnWriteCur(1) \/ RtdnWriteAudit(1)
    /\ UNCHANGED lastDone

\* The store always answers.  Nothing makes RtdnFetch happen: the step is the
\* provider's answer (or error), and the call at server.js:272-278 sets no
\* timeout that would end the wait.
SpecLive == Init /\ [][NextLive]_vars /\ WF_vars(StoreSteps)

\* RTDN deliveries handled one after the other, for the listed products and
\* for a product the tier table does not list.
UnlistedProduct == "other_product"

HappyBodies ==
    SeqRtdnBodies
    \cup {Body(r) : r \in [kind : {"sub"}, subscriptionId : {UnlistedProduct},
                           purchaseToken : {"tok1"}, notificationType : NotifTypes]}

NextHappy ==
    /\ RtdnStep(1, HappyBodies, PlayResponses)
    /\ RecordDone(1)

SpecHappy == Init /\ [][NextHappy]_vars

\* RTDN deliveries handled one after the other, each a DeveloperNotification
\* with its eventTimeMillis: two notifications of the same purchase token and
\* type with different event times are two occurrences (two renewals), two
\* with the same event time are one occurrence delivered twice.
EventTimes == {1, 2}

OccurBodies ==
    {b \in SeqRtdnBodies : b.kind # "sub" \/ b.purchaseToken = "tok2"}
    \cup {Body(r) : r \in [kind : {"sub"}, subscriptionId : {"genevolut_champ"},
                           purchaseToken : {"tok1"}, notificationType : {4},
                           eventTimeMillis : EventTimes]}

NextOccur ==
    /\ RtdnStep(1, OccurBodies, RaceResponses)
    /\ RecordDone(1)

SpecOccur == Init /\ [][NextOccur]_vars

\* The store after BILLING.SUBSCRIPTION.ACTIVATED and then CANCELLED were
\* processed for u1 with payer a@x.com: the merge-set of CANCELLED leaves
\* subscriptionId, planId and payerEmail on users/u1.
CancelledUser ==
    [NoUserDoc EXCEPT !.subscriptionId = "I-1", !.planId = GrandmasterPlan,
                      !.subscriptionStatus = "cancelled", !.payerEmail = "a@x.com",
                      !.subscription_tier = "Free"]

CancelledCur ==
    [NoCurDoc EXCEPT !.status = "cancelled", !.tier = "Free", !.planId = NULL,
                     !.subscriptionId = NULL]

InitRebind ==
    /\ users = [u \in Users |-> IF u = "u1" THEN CancelledUser ELSE NoUserDoc]
    /\ cur = [u \in Users |-> IF u = "u1" THEN CancelledCur ELSE NoCurDoc]
    /\ audits = [k \in Keys |-> NoAuditDoc]
    /\ vaudits = <<>>
    /\ now = 1
    /\ h = [p \in Procs |-> Idle]
    /\ runs = 0
    /\ applied = [k \in Keys |-> 0]
    /\ lastFetch = [t \in Tokens |-> ABSENT]
    /\ cancels = {}
    /\ lastDone = NoLastDone

\* Webhook deliveries handled one after the other, after u1 has cancelled.
NextRebind ==
    /\ \/ PayPalStep(1, SeqPayPalBodies)
       \/ StripeStep(1, SeqStripeBodies, Emails)
    /\ UNCHANGED lastDone

SpecRebind == InitRebind /\ [][NextRebind]_vars

\* PayPal webhook deliveries handled one after the other.
NextPayPalSeq ==
    /\ PayPalStep(1, SeqPayPalBodies)
    /\ RecordDone(1)

SpecPayPalSeq == InitRebind /\ [][NextPayPalSeq]_vars

\* The PayPal webhook and the Android client on the same store; each user
\* subscribes to one plan.
NextClient ==
    /\ \/ PayPalStep(1, SeqPayPalBodies)
       \/ \E uid \in Users :
             StartSubscription(uid, GrandmasterPlan, "Grandmaster",
                               IF uid = "u1" THEN "I-1" ELSE "I-2")
    /\ UNCHANGED lastDone

SpecClient == InitWeb /\ [][NextClient]_vars

\* RTDN deliveries handled one after the other, for a purchase token that no
\* user holds until it is bound to u2.
NextBind ==
    \/ /\ RtdnStep(1, {b \in SeqRtdnBodies : b.kind # "sub" \/ b.purchaseToken = "tok2"},
                    RaceResponses)
       /\ RecordDone(1)
    \/ /\ Free(1)
       /\ BindToken("u2", "tok2", "genevolut_champ")
       /\ UNCHANGED lastDone

SpecBind == Init /\ [][NextBind]_vars

\* The later revision of the Google Play server, its requests handled one
\* after the other; no user has a subscription yet, both users send the same
\* purchase token.
NextRev3 ==
    /\ Step3(1, {b \in VerifyBodies : b.purchaseToken = "tok1"
                                       /\ b.subscriptionId = "genevolut_champ"},
             RaceBodies, RaceResponses)
    /\ UNCHANGED lastDone

SpecRev3 == InitWeb /\ [][NextRev3]_vars

\* The two endpoints the app calls, POST /api/googleplay/verify and
\* POST /api/paypal/subscription, with requests that may lack fields.
NextValidate ==
    /\ \/ \E req \in VerifyRequests : VerifyReceive(1, VerifyBodyOf(req))
       \/ VerifyReject(1)
       \/ VerifyFetch(1, RaceResponses)
       \/ VerifyAudit(1)
       \/ \E req \in SubscriptionRequests : SubscriptionReceive(1, req)
       \/ SubscriptionToken(1)
       \/ SubscriptionCreate(1)
    /\ UNCHANGED lastDone

SpecValidate == Init /\ [][NextValidate]_vars

\* Stripe events whose metadata.tier is any of the strings a client may have
\* sent to /api/stripe/create-subscription, which only tests that tier is not
\* empty (part_006:561-588) and copies it into the subscription metadata.
CreditBodies ==
    {[b EXCEPT !.tier = t] : b \in {c \in SeqStripeBodies : c.tier # ABSENT /\ c.userId = "u1"},
                             t \in Tiers \cup {"grandmaster", "Free"}}
    \cup {b \in SeqStripeBodies : b.kind = "bad_signature"}

NextCredits ==
    /\ StripeStep(1, CreditBodies, Emails)
    /\ UNCHANGED lastDone

SpecCredits == InitWeb /\ [][NextCredits]_vars

\* ------------------------------------------------------------------ claims
\* The run in slot p has passed the idempotency guard and has not ended.
PastGuard(p) == h[p].pc \in {"find", "fetch", "write_user", "write_cur", "write_audit"}

\* The run in slot p holds a status resolved from a provider response.
Resolved(p) == h[p].pc \in {"write_user", "write_cur", "write_audit", "v_audit"}

\* No request is being handled.
Quiet == \A p \in Procs : Free(p)

\* C1: when an RTDN delivery of a known user's event directly follows a
\* delivery of the same key that went through without a store or provider
\* failure, and itself meets no such failure, then at the end of the second
\* delivery the key has exactly one audit record and users/{id} and
\* users/{id}/subscriptions/current are as the first delivery left them,
\* whatever the provider answers.
C1_Idempotence ==
    [][\A p \in Procs :
          (/\ Completes(p)
           /\ h'[p].key # NoKey
           /\ lastDone.key = h'[p].key
           /\ lastDone.outcome \in {"processed", "duplicate", "invalid_data"}
           /\ h'[p].outcome \notin {"error", "provider_error"})
          => /\ users' = lastDone.users
             /\ cur' = lastDone.cur
             /\ AuditCount(audits', vaudits', h'[p].key) = 1]_vars

\* C2: of two RTDN runs that carry the same key, at most one is past the
\* idempotency guard at any time.
C2_AtomicGuard ==
    \A p, q \in Procs :
        (p # q /\ h[p].key # NoKey /\ h[p].key = h[q].key) => ~(PastGuard(p) /\ PastGuard(q))

\* C3: updateFirestoreEntitlement is executed at most once per idempotency key.
C3_AtMostOnce == \A k \in Keys : applied[k] <= 1

\* The payer identities stored in payerEmail: PayPal subscriber and Stripe
\* customer emails, and Stripe customer ids.
PayerIdentities == Emails \cup Customers

\* C4: for every payer identity at most one user has subscriptionStatus
\* "active" with payerEmail equal to it.
C4_ConflictExclusivity ==
    \A e \in PayerIdentities :
        Cardinality({u \in Users : users[u].subscriptionStatus = "active"
                                   /\ users[u].payerEmail = e}) <= 1

\* C5: a run that handles an activation for a user while another user is
\* active with the same payer identity writes no document, and when it ends
\* without an exception it has requested the cancellation at the provider.
C5_ConflictRejected ==
    \A p \in Procs :
        h[p].conflict =>
            /\ h[p].wrote = {}
            /\ (h[p].pc = "done" /\ h[p].outcome # "error") => "cancel" \in h[p].calls

\* C6: once two RTDN runs for the same purchase token and different
\* notification types have both written the entitlement and finished (with
\* or without their audit record), the stored status of the
\* token's user is the one resolved from the response fetched last.
C6_OutOfOrder ==
    (/\ h[1].pc = "done" /\ h[2].pc = "done"
     /\ h[1].outcome \in {"processed", "invalid_data"}
     /\ h[2].outcome \in {"processed", "invalid_data"}
     /\ h[1].handler = "rtdn" /\ h[2].handler = "rtdn"
     /\ h[1].key[1] = h[2].key[1] /\ h[1].key[2] # h[2].key[2])
    => \A u \in FindUserByToken(h[1].key[1]) :
          /\ users[u].subscriptionStatus = lastFetch[h[1].key[1]]
          /\ cur[u].status = lastFetch[h[1].key[1]]

\* C7: a provider response with expiry <= now resolves to "expired" in the
\* RTDN handler and in the verify handler, for every paymentState and
\* cancelReason.
C7_ExpiryDominance ==
    \A p \in Procs : (Resolved(p) /\ h[p].expiry <= now) => h[p].status = "expired"

\* C8: every user whose stored subscriptionStatus is not "active" has stored
\* subscription_tier "Free" (a document that stores no tier at all is counted
\* as holding the baseline).
C8_TierInvariant ==
    \A u \in Users :
        users[u].subscriptionStatus \notin {ABSENT, "active"}
            => users[u].subscription_tier \in {"Free", ABSENT}

\* C9: a push-notification run that has written an entitlement document has
\* fetched the subscription from the provider before.
C9_ReVerification ==
    \A p \in Procs :
        (h[p].handler \in {"rtdn", "paypal", "stripe"} /\ h[p].wrote \cap {"users", "cur"} # {})
            => h[p].calls \cap {"fetch", "retrieve"} # {}

\* C10: with no request in progress, users/{id} and subscriptions/current
\* reflect the same RTDN event, and that event's audit record exists.
C10_AtomicWrite ==
    Quiet =>
        \A u \in Users :
            /\ users[u].event = cur[u].event
            /\ users[u].event # NoKey => audits[users[u].event] # NoAuditDoc

\* C11: once two RTDN runs with different keys for the same purchase token have
\* both written the entitlement and finished, users/{id} and
\* subscriptions/current of the token's user carry the status and the tier of the same run.
C11_PerUserAtomicity ==
    (/\ h[1].pc = "done" /\ h[2].pc = "done"
     /\ h[1].outcome \in {"processed", "invalid_data"}
     /\ h[2].outcome \in {"processed", "invalid_data"}
     /\ h[1].handler = "rtdn" /\ h[2].handler = "rtdn"
     /\ h[1].key[1] = h[2].key[1] /\ h[1].key[2] # h[2].key[2])
    => \A u \in FindUserByToken(h[1].key[1]) :
          /\ users[u].event = cur[u].event
          /\ users[u].subscriptionStatus = cur[u].status
          /\ users[u].subscription_tier = cur[u].tier

\* C12: an RTDN delivery whose audit record exists ends in its first step with
\* 200, having written no document and called no provider; users/{id},
\* subscriptions/current and purchase_audits are unchanged.
C12_ShortCircuit ==
    [][\A p \in Procs : \A body \in RtdnBodies :
          (/\ body.kind = "sub"
           /\ audits[AuditId(body.purchaseToken, body.notificationType)] # NoAuditDoc
           /\ RtdnReceive(p, body))
          => /\ h'[p].pc = "done"
             /\ h'[p].http = 200
             /\ h'[p].wrote = {}
             /\ h'[p].calls \cap ProviderCalls = {}
             /\ UNCHANGED <<users, cur, audits, vaudits>>]_vars

\* C12 witness: a delivery was found already processed.
C12_Witness ==
    \E p \in Procs :
        /\ h[p].outcome = "duplicate"
        /\ audits[h[p].key] # NoAuditDoc
        /\ h[p].calls = {"read"}

\* C13: an RTDN run whose provider call throws ends with 200, has written no
\* document, and leaves no audit record for its key; the delivery of the same
\* key that follows is not taken for a duplicate.
C13_ProviderFailure ==
    [][/\ \A p \in Procs :
            (h[p].pc = "fetch" /\ h'[p].pc = "done")
            => /\ h'[p].http = 200
               /\ h'[p].wrote = {}
               /\ UNCHANGED <<users, cur, audits, vaudits>>
               /\ audits'[h[p].key] = NoAuditDoc
       /\ lastDone'.retry => lastDone'.outcome # "duplicate"]_vars

\* C13 witness: the delivery that follows a provider failure ran the whole
\* pipeline.
C13_Witness ==
    /\ lastDone.retry
    /\ lastDone.outcome = "processed"
    /\ audits[lastDone.key] # NoAuditDoc

\* Runs of the inbound notification endpoints.
PushHandlers == {"rtdn", "paypal", "stripe"}

\* C14: every run of a notification endpoint that was not rejected by the
\* signature check has been answered 200 when it ends, on every path,
\* including those on which a store or provider call throws (the RTDN and
\* PayPal payload checks answer 200 as well).
C14_AlwaysAcknowledged ==
    \A p \in Procs :
        (h[p].pc = "done" /\ h[p].handler \in PushHandlers /\ h[p].outcome # "bad_signature")
            => h[p].http = 200

\* C14 witness: a run ended in the catch block after it had written a document.
C14_Witness ==
    \E p \in Procs :
        /\ h[p].pc = "done"
        /\ h[p].handler = "paypal"
        /\ h[p].outcome = "error"
        /\ h[p].wrote # {}
        /\ h[p].http = 200

\* C15: every RTDN delivery that is being handled is eventually answered.
C15_EventuallyAcknowledged ==
    \A p \in Procs : (h[p].pc \notin {"idle", "done"}) ~> (h[p].pc = "done")

\* C16: a Stripe delivery whose signature constructEvent rejects is answered
\* 400 in its first step and ends there: no store write, no store read, no
\* provider call, every document unchanged.
C16_SignatureRejected ==
    [][\A p \in Procs : \A body \in StripeBodies :
          (body.kind = "bad_signature" /\ StripeReceive(p, body))
          => /\ h'[p].pc = "done"
             /\ h'[p].http = 400
             /\ h'[p].wrote = {}
             /\ h'[p].calls = {}
             /\ UNCHANGED <<users, cur, audits, vaudits, cancels>>]_vars

\* C16 witness: a delivery was rejected for its signature.
C16_Witness ==
    \E p \in Procs :
        /\ h[p].handler = "stripe"
        /\ h[p].outcome = "bad_signature"
        /\ h[p].http = 400

\* C17: an RTDN body without message.data or without subscriptionNotification,
\* and a PayPal body without event_type, resource or resource.id, is answered
\* 200 in its first step and ends there: no store read or write, no provider
\* call, every document unchanged.
C17_MalformedPayload ==
    [][\A p \in Procs :
          (\/ \E body \in RtdnBodies :
                 body.kind \in {"nodata", "notsub"} /\ RtdnReceive(p, body)
           \/ \E body \in PayPalBodies :
                 body.kind = "incomplete" /\ PayPalReceive(p, body))
          => /\ h'[p].pc = "done"
             /\ h'[p].http = 200
             /\ h'[p].wrote = {}
             /\ h'[p].calls = {}
             /\ UNCHANGED <<users, cur, audits, vaudits, cancels>>]_vars

\* C17 witness: an incomplete payload was acknowledged.
C17_Witness ==
    \E p \in Procs :
        /\ h[p].handler \in {"rtdn", "paypal"}
        /\ h[p].outcome = "malformed"
        /\ h[p].http = 200

\* The event types the PayPal and Stripe switches have a case for.
PayPalHandled == PayPalLifecycle \cup {"PAYMENT.SALE.COMPLETED"}
StripeHandled ==
    StripeUpdates \cup {"checkout.session.completed", "customer.subscription.deleted",
                        "invoice.payment_failed"}

\* The run in slot p handles an RTDN whose notification type is none of the
\* types the backend knows.
UnknownRtdn(p) ==
    /\ h[p].handler = "rtdn"
    /\ h[p].pc \notin {"idle", "done"}
    /\ h[p].ev.notificationType \notin NotifTypes

\* C18: a notification of a kind outside the handled set is acknowledged with
\* success and is a no-op: the PayPal and the Stripe run end in their first
\* step having written nothing, and no step of such an RTDN run changes an
\* entitlement document or purchase_audits.
C18_UnknownKindNoOp ==
    [][\A p \in Procs :
          /\ (\/ \E body \in PayPalBodies :
                    body.kind \notin PayPalHandled \cup {"incomplete"} /\ PayPalReceive(p, body)
              \/ \E body \in StripeBodies :
                    body.kind \notin StripeHandled \cup {"bad_signature"} /\ StripeReceive(p, body))
             => /\ h'[p].pc = "done"
                /\ h'[p].http = 200
                /\ h'[p].wrote = {}
                /\ UNCHANGED <<users, cur, audits, vaudits>>
          /\ UnknownRtdn(p)
             => /\ UNCHANGED <<users, cur, audits, vaudits>>
                /\ h'[p].pc = "done" => h'[p].http = 200]_vars

\* C19: a response with expiry > now resolves, in the RTDN handler and in the
\* verify handler, to "active" when payment is received (paymentState 1) and
\* no cancel reason is present, to "cancelled" when payment is received and a
\* cancel reason is present, and to "pending" otherwise.
C19_UnexpiredResolution ==
    \A p \in Procs :
        (Resolved(p) /\ h[p].expiry > now)
        => h[p].status =
              IF h[p].resp.paymentState = 1 /\ h[p].resp.cancelReason = NoInt THEN "active"
              ELSE IF h[p].resp.paymentState = 1 THEN "cancelled"
              ELSE "pending"

\* C20: an RTDN delivery of (purchaseToken, notificationType) that passed the
\* guard for a known user and whose re-fetched response is unexpired, with
\* payment received and no cancel reason, ends (unless the store fails on the
\* audit write) processed with users/{uid} and
\* subscriptions/current at status "active" and at the tier of the product
\* (genevolut_grandmaster: Grandmaster, genevolut_champ: Champ, any other
\* product: Free), and with exactly one audit record of the event, stored
\* under the key made of the purchase token and the notification type.
C20_HappyPath ==
    [][\A p \in Procs :
          (/\ h[p].handler = "rtdn"
           /\ h[p].pc = "write_audit"
           /\ h'[p].pc = "done"
           /\ h'[p].outcome # "error"
           /\ h[p].resp.expiryTimeMillis > now
           /\ h[p].resp.paymentState = 1
           /\ h[p].resp.cancelReason = NoInt)
          => LET uid == h[p].uid
                 token == h[p].ev.purchaseToken
                 kind == h[p].ev.notificationType
                 product == h[p].ev.subscriptionId
                 tier == CASE product = "genevolut_grandmaster" -> "Grandmaster"
                           [] product = "genevolut_champ" -> "Champ"
                           [] OTHER -> "Free"
             IN  /\ uid \in Users
                 /\ users'[uid].subscriptionStatus = "active"
                 /\ users'[uid].subscription_tier = tier
                 /\ cur'[uid].status = "active"
                 /\ cur'[uid].tier = tier
                 /\ h'[p].http = 200
                 /\ h'[p].outcome = "processed"
                 /\ audits'[<<token, kind>>] # NoAuditDoc
                 /\ audits'[<<token, kind>>].purchaseToken = token
                 /\ audits'[<<token, kind>>].notificationType = kind
                 /\ audits'[<<token, kind>>].status = "active"
                 /\ AuditCount(audits', vaudits', <<token, kind>>) = 1
                 /\ \A k \in Keys : k # <<token, kind>> => audits'[k] = audits[k]]_vars

\* C21: a POST /api/googleplay/verify that passes the integrity check and
\* resolves a status has applied that status to users/{userId} and to
\* subscriptions/current when it answers the caller.
C21_VerifyWritesEntitlement ==
    [][\A p \in Procs :
          (/\ h[p].handler = "verify"
           /\ h[p].pc = "v_audit"
           /\ h'[p].outcome = "verified")
          => /\ users'[h[p].ev.userId].subscriptionStatus = h[p].status
             /\ cur'[h[p].ev.userId].status = h[p].status]_vars

\* C22: a verify run whose decoded verdict is not trusted never calls the
\* billing provider and never resolves a billing status; it ends with one
\* more audit record, of status integrity_failed for the body's user, product
\* and token, with the 403 rejection, and with users, subscriptions/current
\* and the RTDN audit records unchanged.
C22_IntegrityFailed ==
    [][\A p \in Procs :
          /\ (h'[p].handler = "verify" /\ h'[p].pc \in {"v_fetch", "v_audit"})
             => (h'[p].verdict.device /\ h'[p].verdict.app /\ h'[p].verdict.licensed)
          /\ (h'[p].pc = "v_reject") => h'[p].calls = {"integrity"}
          /\ (h[p].pc = "v_reject" /\ h'[p].pc = "done")
             => /\ h'[p].outcome \in {"integrity_failed", "error"}
                /\ "fetch" \notin h'[p].calls
                /\ UNCHANGED <<users, cur, audits>>
                /\ h'[p].outcome = "integrity_failed"
                   => /\ h'[p].http = 403
                      /\ Len(vaudits') = Len(vaudits) + 1
                      /\ SubSeq(vaudits', 1, Len(vaudits)) = vaudits
                      /\ vaudits'[Len(vaudits')] =
                            [NoAuditDoc EXCEPT !.userId = h[p].ev.userId,
                                               !.productId = h[p].ev.subscriptionId,
                                               !.purchaseToken = h[p].ev.purchaseToken,
                                               !.status = "integrity_failed",
                                               !.source = "verify"]]_vars

\* C22 witness: a run rejected for its verdict has ended, its audit record
\* is the last one written.
C22_Witness ==
    \E p \in Procs :
        /\ h[p].handler = "verify"
        /\ h[p].pc = "done"
        /\ h[p].outcome = "integrity_failed"
        /\ h[p].http = 403
        /\ Len(vaudits) > 0
        /\ vaudits[Len(vaudits)].status = "integrity_failed"

\* C23: once users/{uid} has status cancelled or expired for a subscription
\* reference (Google Play purchaseToken, PayPal subscriptionId), no later
\* write that keeps the same reference on the document sets the status to
\* active, pending, suspended or payment_failed.
C23_TerminalFinal ==
    [][\A u \in Users :
          (/\ users[u].subscriptionStatus \in {"cancelled", "expired"}
           /\ users'[u].purchaseToken = users[u].purchaseToken
           /\ users'[u].subscriptionId = users[u].subscriptionId)
          => users'[u].subscriptionStatus \in {"cancelled", "expired"}]_vars

\* C24: the audit document of a key, once created, is never written again:
\* in every step, also of two concurrent RTDN deliveries of the same key, an
\* existing purchase_audits/{key} keeps every field.
C24_AuditWriteOnce ==
    [][\A k \in Keys : audits[k] # NoAuditDoc => audits'[k] = audits[k]]_vars

\* C25: two occurrences of the same purchase token and notification type
\* (two notifications with different eventTimeMillis) have distinct keys:
\* when the delivery that follows a processed one is another occurrence of
\* its token and type, the guard does not suppress it.
C25_KeyPerOccurrence ==
    [][\A p \in Procs : \A body \in OccurBodies :
          (/\ body.kind = "sub"
           /\ lastDone.outcome = "processed"
           /\ lastDone.key = AuditId(body.purchaseToken, body.notificationType)
           /\ lastDone.occ # body.eventTimeMillis
           /\ RtdnReceive(p, body))
          => h'[p].outcome # "duplicate"]_vars

\* C26: a PayPal or Stripe activation rejected because the payer identity
\* belongs to another user has written an audit record, and an audit record
\* of status cancelled exists.
C26_ConflictRecorded ==
    \A p \in Procs :
        (/\ h[p].handler \in {"paypal", "stripe"}
         /\ h[p].pc = "done"
         /\ h[p].outcome = "conflict")
        => /\ "audit" \in h[p].wrote
           /\ \/ \E i \in DOMAIN vaudits : vaudits[i].status = "cancelled"
              \/ \E k \in Keys : audits[k].status = "cancelled"

\* C27: an activation is rejected for identity conflict only when another
\* user bound to the payer identity is active: when every other user whose
\* document carries the payer identity is cancelled at the Free tier, the
\* conflict lookup of a PayPal or Stripe activation admits it (the handler
\* goes on to write the activation).
C27_CancelledFreesIdentity ==
    [][\A p \in Procs :
          LET ident == IF h[p].handler = "paypal" THEN h[p].ev.email ELSE h[p].ident
          IN  (/\ h[p].pc \in {"pp_query", "st_query"}
               /\ h'[p].pc # "done"
               /\ \A u \in Users \ {h[p].uid} :
                     users[u].payerEmail = ident
                     => /\ users[u].subscriptionStatus = "cancelled"
                        /\ users[u].subscription_tier = "Free")
              => h'[p].pc \in {"pp_write_user", "st_write_user"}]_vars

\* The PayPal lifecycle events that name a status.
PayPalDirect == PayPalLifecycle \ {"BILLING.SUBSCRIPTION.ACTIVATED"}

\* C28: a PayPal CANCELLED, SUSPENDED, EXPIRED or PAYMENT.FAILED event with a
\* user id goes straight to the write of the user document, and that write
\* sets users/{uid}.subscriptionStatus to cancelled, suspended, expired or
\* payment_failed, whatever the document held before and with no provider
\* call made before it; the run that ends processed leaves that status.
C28_LifecycleDirect ==
    [][\A p \in Procs :
          LET kind == h[p].ev.kind
              expected == CASE kind = "BILLING.SUBSCRIPTION.CANCELLED" -> "cancelled"
                            [] kind = "BILLING.SUBSCRIPTION.SUSPENDED" -> "suspended"
                            [] kind = "BILLING.SUBSCRIPTION.EXPIRED" -> "expired"
                            [] kind = "BILLING.SUBSCRIPTION.PAYMENT.FAILED" -> "payment_failed"
                            [] OTHER -> ABSENT
          IN  /\ \A body \in PayPalBodies :
                    (body.kind \in PayPalDirect /\ body.userId # ABSENT /\ PayPalReceive(p, body))
                    => /\ h'[p].pc \in {"pp_cancelled_user", "pp_status", "pp_failed_user"}
                       /\ h'[p].uid = body.userId
                       /\ h'[p].calls = {}
              /\ (h[p].pc \in {"pp_cancelled_user", "pp_status", "pp_failed_user"}
                     /\ h'[p].outcome # "error")
                 => /\ kind \in PayPalDirect
                    /\ h[p].calls = {}
                    /\ users'[h[p].uid].subscriptionStatus = expected
              /\ (h[p].handler = "paypal" /\ kind \in PayPalDirect
                     /\ h'[p].pc = "done" /\ h'[p].outcome = "processed")
                 => /\ users'[h[p].uid].subscriptionStatus = expected
                    /\ h'[p].calls \subseteq {"cancel"}]_vars

\* C28 witness: an EXPIRED event was processed for a user that an earlier
\* ACTIVATED event had made active (the paid tier is still on the document).
C28_Witness ==
    /\ h[1].handler = "paypal"
    /\ h[1].pc = "done"
    /\ h[1].outcome = "processed"
    /\ h[1].calls = {}
    /\ users["u1"].subscriptionStatus = "expired"
    /\ users["u1"].subscription_tier \in {"Champ", "Grandmaster"}

\* C29: users/{uid}/subscriptions/current gets status active only from the
\* entitlement write of a handler run that resolved Active for that user: a
\* Google Play or Stripe run whose resolved status is active, or a PayPal run
\* of an ACTIVATED event.  No other step (creating a PayPal subscription the
\* payer has not approved, in particular) stores status active.
C29_ActiveOnlyByWriter ==
    [][\A u \in Users :
          (cur'[u] # cur[u] /\ cur'[u].status = "active")
          => \E p \in Procs :
                /\ h[p].uid = u
                /\ h'[p] # h[p]
                /\ \/ h[p].pc \in {"write_cur", "st_write_cur"} /\ h[p].status = "active"
                   \/ /\ h[p].pc = "pp_write_cur"
                      /\ h[p].ev.kind = "BILLING.SUBSCRIPTION.ACTIVATED"]_vars

\* C30: when a handler run has completed without an exception, every user's
\* users/{id}.subscriptionStatus equals subscriptions/current.status and
\* users/{id}.subscription_tier equals subscriptions/current.tier.
C30_DocumentsAgree ==
    \A p \in Procs :
        (h[p].pc = "done" /\ h[p].outcome = "processed")
        => \A u \in Users :
              /\ users[u].subscriptionStatus = cur[u].status
              /\ users[u].subscription_tier = cur[u].tier

\* C31: the activation write of a BILLING.SUBSCRIPTION.ACTIVATED event whose
\* plan_id is the plan of tier t in validPlanIds stores subscription_tier t
\* in users/{uid}.
C31_TierMatchesPlanTable ==
    [][\A p \in Procs :
          (h[p].pc = "pp_write_user" /\ h'[p].pc = "pp_write_cur")
          => \A t \in DOMAIN ValidPlanIds :
                ValidPlanIds[t] = h[p].ev.planId
                => users'[h[p].uid].subscription_tier = t]_vars

\* C32: once a Stripe checkout has stored the payer's email in
\* users/{u}.payerEmail, no later write of a Stripe event for that user
\* changes the field.
C32_PayerEmailStays ==
    [][\A u \in Users :
          (/\ users[u].provider = "stripe"
           /\ users[u].payerEmail \in Emails
           /\ \E p \in Procs : /\ h[p].handler = "stripe"
                               /\ h[p].pc = "st_write_user"
                               /\ h[p].uid = u)
          => users'[u].payerEmail = users[u].payerEmail]_vars

\* C33: an RTDN delivery whose purchase token is stored under no user ends
\* with 200, no store write, no provider call and no audit record of its
\* key; the delivery of the same key that follows it is not taken for a
\* duplicate, and once the token is bound to a user it is processed.
C33_UnknownTokenNotRecorded ==
    [][/\ \A p \in Procs :
            (/\ h[p].handler = "rtdn"
             /\ h[p].pc = "find"
             /\ FindUserByToken(h[p].ev.purchaseToken) = {}
             /\ h'[p] # h[p])
            => /\ h'[p].pc = "done"
               /\ h'[p].http = 200
               /\ h'[p].outcome \in {"nouser", "error"}
               /\ h'[p].wrote = {}
               /\ h'[p].calls \cap ProviderCalls = {}
               /\ UNCHANGED <<users, cur, audits, vaudits>>
               /\ audits'[h[p].key] = NoAuditDoc
       /\ \A p \in Procs :
            (Completes(p) /\ lastDone'.unbound)
            => /\ h'[p].outcome # "duplicate"
               /\ (\E u \in Users : cur[u].purchaseToken = h'[p].key[1])
                  => h'[p].outcome \in {"processed", "error", "provider_error",
                                         "invalid_data"}]_vars

\* C33 witness: the delivery that follows one that found no user was
\* processed for the user the token was bound to in between.
C33_Witness ==
    /\ lastDone.unbound
    /\ lastDone.outcome = "processed"
    /\ lastDone.key = <<"tok2", 4>>
    /\ audits[<<"tok2", 4>>].userId = "u2"
    /\ cur["u2"].event = <<"tok2", 4>>

\* C34: in the revision whose verify endpoint writes the entitlement, no two
\* users have a subscriptions/current document with the same purchase token
\* and status active.
C34_TokenOneUser ==
    \A u, v \in Users :
        (/\ u # v
         /\ cur[u].purchaseToken # ABSENT
         /\ cur[u].purchaseToken = cur[v].purchaseToken
         /\ cur[u].status = "active")
        => cur[v].status # "active"

\* C35: for every provider response, with cancelReason absent or one of the
\* codes 0..3, the status the handlers resolve with `cancelReason == null`
\* is the status the resolver that tests `!cancelReason` returns.
C35_ResolversAgree ==
    \A p \in Procs :
        Resolved(p)
        => h[p].status = ResolveStatus3(h[p].expiry, now, h[p].resp.paymentState,
                                        h[p].resp.cancelReason)


\* C36: every handler sends exactly one HTTP response per request: no request
\* has more than one response, a finished request has exactly one, the RTDN,
\* verify and PayPal handlers respond as their last step (also on the
\* identity-conflict return and in the catch block), and the Stripe webhook
\* has responded once before its background processing starts and does not
\* respond again.
C36_OneResponse ==
    \A p \in Procs :
        /\ h[p].sent <= 1
        /\ h[p].pc = "done" => h[p].sent = 1 /\ h[p].http # 0
        /\ (h[p].handler = "stripe" /\ h[p].pc # "idle") => h[p].sent = 1
        /\ (h[p].handler # "stripe" /\ h[p].pc # "done") => h[p].sent = 0

\* C36 witness: a PayPal activation has returned from the identity-conflict
\* branch after cancelling the duplicate subscription, with its one response.
C36_Witness ==
    \E p \in Procs :
        /\ h[p].pc = "done" /\ h[p].handler = "paypal"
        /\ h[p].conflict /\ "cancel" \in h[p].calls
        /\ h[p].outcome # "error"
        /\ h[p].sent = 1 /\ h[p].http = 200


\* C37: validation comes before any side effect: a verify request that lacks
\* one of packageName, productId, purchaseToken, userId, integrityToken, and a
\* PayPal subscription request that lacks planId, userId or tier or whose
\* planId is not validPlanIds[tier], is answered 400 in its first step, with
\* no provider call, no store write and the store unchanged.
C37_ValidationFirst ==
    [][/\ \A req \in VerifyRequests :
            (/\ \/ req.packageName = ABSENT \/ req.productId = ABSENT
                \/ req.purchaseToken = ABSENT \/ req.userId = ABSENT
                \/ req.integrityToken = ABSENT
             /\ VerifyReceive(1, VerifyBodyOf(req)))
            => /\ h'[1].pc = "done" /\ h'[1].http = 400 /\ h'[1].sent = 1
               /\ h'[1].wrote = {} /\ h'[1].calls = {}
               /\ UNCHANGED <<users, cur, audits, vaudits, cancels>>
       /\ \A req \in SubscriptionRequests :
            (/\ \/ req.planId = ABSENT \/ req.userId = ABSENT \/ req.tier = ABSENT
                \/ req.tier \notin DOMAIN ValidPlanIds
                \/ ValidPlanIds[req.tier] # req.planId
             /\ SubscriptionReceive(1, req))
            => /\ h'[1].pc = "done" /\ h'[1].http = 400 /\ h'[1].sent = 1
               /\ h'[1].wrote = {} /\ h'[1].calls = {}
               /\ UNCHANGED <<users, cur, audits, vaudits, cancels>>]_vars

\* C37 witness: a subscription request with all fields but the plan of another
\* tier was turned down, after an earlier request had gone through to PayPal.
C37_Witness ==
    /\ h[1].pc = "done" /\ h[1].handler = "subscription"
    /\ h[1].outcome = "invalid_plan" /\ h[1].http = 400
    /\ h[1].calls = {} /\ h[1].wrote = {}
    /\ runs = 2


====
